---- MODULE Spec2Model ----
(***************************************************************************)
(* A model of go-ichiran's Analyze pipeline and transliteration engine:    *)
(*   - extractJSONFromDockerOutput (docker.go): the line scan that finds   *)
(*     the JSON answer in the demultiplexed command output;                *)
(*   - parseOutput / extractTokens (ichiran.go): the decoding of the       *)
(*     shape-polymorphic JSON answer into tokens;                          *)
(*   - selectiveTranslit (selective.go): the frequency / regularity        *)
(*     driven rewrite with its audit list;                                 *)
(*   - Docker.Initialize, the default manager, the container check of      *)
(*     Analyze, safe, ToMorphemes and the read of the attached stream.     *)
(* Strings are sequences of one-character strings; byte lengths, escapes   *)
(* and whitespace are computed on them as the Go code computes them.       *)
(***************************************************************************)
EXTENDS Integers, Sequences, FiniteSets, TLC

VARIABLES
    rawOutput,      \* extract: the demultiplexed bytes handed to the line scan
    extractPc,      \* extract: "start" | "done"
    extractResult,  \* extract: [err, bytes] returned by extractJSONFromDockerOutput
    output,         \* decode: the bytes handed to parseOutput, as the JSON value they hold
    loggerFatalExits, \* decode: whether Logger.Fatal() ends the process in this build
    loopVarShared,  \* decode: whether the build gives range loops one shared variable
    decodePc,       \* decode: "parse" | "parsed" | "returned" | "exited" | "panicked"
    parseResult,    \* decode: [err, tokens] returned by parseOutput
    analyzeResult,  \* decode: [err, tokens] returned by Analyze
    tokens,         \* translit: the token sequence selectiveTranslit is called on
    translit,       \* translit: threshold -> result of the call made with it
    initChan,       \* ready: the logger's initChan, "open" | "closed"
    failedChan,     \* ready: the logger's failedChan, "open" | "closed"
    initPc,         \* ready: where Initialize stands: "idle" | "select" | "ready" | "status"
    runs,           \* ready: the number of calls of Initialize made on the Docker
    waited,         \* ready: whether the latest call started the stack and reached its select
    received,       \* ready: the case of the select that fired in the latest call
    initErr,        \* ready: what the latest call of Initialize returned
    upGo,           \* ready: call -> state of the goroutine it started around service.Up
    sentinelLogged, \* ready: whether Log got a sentinel message during the latest call
    logCount,       \* ready: the number of messages handed to Log
    panicAt,        \* ready: the function that panicked, "none" while the process lives
    instance,       \* manager: the package variable `instance`, 0 for nil, else a manager
    instanceClosed, \* manager: the package variable `instanceClosed`
    onceDone,       \* manager: whether the package variable `once` has run its function
    built,          \* manager: the number of managers constructed so far
    closedMgrs,     \* manager: the managers that were closed
    analyzed,       \* manager: the managers on which an Analyze succeeded
    callerPc,       \* manager: goroutine -> where it stands in its call
    callerGot,      \* manager: goroutine -> [mgr, err] its latest call obtained
    container,      \* exec: the container, "running" | "stopped" | "gone"
    execPc,         \* exec: where Analyze stands before the decoding
    execs,          \* exec: the number of exec units created
    exitCode,       \* exec: the exit code the command ended with
    inspected,      \* exec: [done, err, running] answered by ContainerInspect
    hitTeardown,    \* exec: whether a call of the client met a container torn down
    text,           \* safe: the text handed to safe
    safePc,         \* safe: "idle" | "start" | "done"
    safeArg,        \* safe: the argument safe returned
    receiver,       \* morphemes: the JSONTokens ToMorphemes is called on
    morphemes,      \* morphemes: [called, tokens], the slice ToMorphemes returned
    frames,         \* read: the payload sizes of the frames that arrived and are unread
    sent,           \* read: the number of frames the peer has written
    peer,           \* read: the far end of the stream, "open" | "closed" | "stalled" | "reset"
    deadline,       \* read: the context of the request, "pending" | "expired"
    readPc,         \* read: where Analyze stands: "idle" | "reading" | "inspect" | "returned"
    readErr,        \* read: the error Analyze returned
    streamOpen,     \* read: whether the attached stream is still held
    got             \* read: the number of payload bytes appended to the buffer

vars == <<rawOutput, extractPc, extractResult, output, loggerFatalExits, loopVarShared,
          decodePc, parseResult, analyzeResult, tokens, translit,
          initChan, failedChan, initPc, runs, waited, received, initErr, upGo,
          sentinelLogged, logCount, panicAt,
          instance, instanceClosed, onceDone, built, closedMgrs, analyzed, callerPc,
          callerGot, container, execPc, execs, exitCode, inspected, hitTeardown,
          text, safePc, safeArg, receiver, morphemes,
          frames, sent, peer, deadline, readPc, readErr, streamOpen, got>>

extractVars == <<rawOutput, extractPc, extractResult>>
decodeVars == <<output, loggerFatalExits, loopVarShared, decodePc, parseResult, analyzeResult>>
translitVars == <<tokens, translit>>
readyVars == <<initChan, failedChan, initPc, runs, waited, received, initErr, upGo,
               sentinelLogged, logCount, panicAt>>
\* the variables of the managers and of their bring-up
managerVars == <<instance, instanceClosed, onceDone, built, closedMgrs, analyzed,
                 callerPc, callerGot>>
execVars == <<container, execPc, execs, exitCode, inspected, hitTeardown>>
safeVars == <<text, safePc, safeArg>>
morphVars == <<receiver, morphemes>>
readVars == <<frames, sent, peer, deadline, readPc, readErr, streamOpen, got>>
callVars == <<safeVars, morphVars, readVars>>
controlVars == <<readyVars, managerVars, execVars, callVars>>
notReadyVars == <<extractVars, decodeVars, translitVars, managerVars, execVars, callVars>>
notManagerVars == <<extractVars, decodeVars, translitVars, readyVars, execVars, callVars>>
pipelineVars == <<extractVars, decodeVars, translitVars, readyVars, managerVars, execVars>>

(***************************************************************************)
(* Bounds of the model.                                                    *)
(***************************************************************************)
MaxLines == 3

(***************************************************************************)
(* Characters and generic string helpers.                                  *)
(***************************************************************************)
Q == "\""
BS == "\\"
NL == "\n"
SP == " "

RECURSIVE Concat(_)
Concat(ss) == IF ss = <<>> THEN <<>> ELSE Head(ss) \o Concat(Tail(ss))

\* strings.Contains / bytes.Contains
Contains(s, sub) ==
    \E i \in 1..(Len(s) - Len(sub) + 1) : SubSeq(s, i, i + Len(sub) - 1) = sub

\* unicode.IsSpace on the characters of the model
IsSpace(c) == c \in {SP, NL}

\* bytes.TrimSpace
RECURSIVE TrimLeft(_)
TrimLeft(s) == IF s /= <<>> /\ IsSpace(Head(s)) THEN TrimLeft(Tail(s)) ELSE s

RECURSIVE TrimRight(_)
TrimRight(s) ==
    IF s /= <<>> /\ IsSpace(s[Len(s)]) THEN TrimRight(SubSeq(s, 1, Len(s) - 1)) ELSE s

TrimSpace(s) == TrimRight(TrimLeft(s))

\* The successive results of bufio.Reader.ReadBytes('\n') until io.EOF
\* (the delimiter stays on each line but the last, and is trimmed by the caller).
RECURSIVE ReadLines(_, _)
ReadLines(s, cur) ==
    IF s = <<>> THEN <<cur>>
    ELSE IF Head(s) = NL THEN <<cur \o <<NL>> >> \o ReadLines(Tail(s), <<>>)
    ELSE ReadLines(Tail(s), cur \o <<Head(s)>>)

(***************************************************************************)
(* encoding/json on the characters of the model: arrays, objects, strings  *)
(* with their escapes, and numbers written with the digit 1.               *)
(* Each Parse operator returns the index after what it read, 0 on failure. *)
(***************************************************************************)
RECURSIVE SkipWs(_, _)
SkipWs(s, i) == IF i <= Len(s) /\ IsSpace(s[i]) THEN SkipWs(s, i + 1) ELSE i

HexDigits == {"0", "1", "2", "3", "4", "5", "6", "7", "8", "9",
              "a", "b", "c", "d", "e", "f", "A", "B", "C", "D", "E", "F"}

\* the one-character escapes of a JSON string literal and what they stand for
SimpleEscapes == {Q, BS, "/", "n", "f", "r", "t"}

EscapeChar(c) ==
    CASE c = "n" -> NL
      [] c = "f" -> "\f"
      [] c = "r" -> "\r"
      [] c = "t" -> "\t"
      [] OTHER -> c

\* the character a \uXXXX escape stands for; characters are named by their
\* code point, and the table lists the code points the inputs use
CodePoint(h) ==
    CASE h = <<"4", "e", "0", "0">> -> "U+4E00"
      [] h = <<"3", "0", "4", "4">> -> "U+3044"
      [] OTHER -> "U+FFFD"

\* the body of a string literal, from the character after the opening quote
RECURSIVE ScanString(_, _)
ScanString(s, j) ==
    IF j > Len(s) THEN 0
    ELSE IF s[j] = Q THEN j + 1
    ELSE IF s[j] = BS
         THEN IF j + 1 <= Len(s) /\ s[j + 1] \in SimpleEscapes THEN ScanString(s, j + 2)
              ELSE IF j + 5 <= Len(s) /\ s[j + 1] = "u"
                      /\ \A d \in 2..5 : s[j + d] \in HexDigits
                   THEN ScanString(s, j + 6)
                   ELSE 0
    ELSE IF s[j] = NL THEN 0
    ELSE ScanString(s, j + 1)

RECURSIVE ScanNumber(_, _)
ScanNumber(s, j) == IF j <= Len(s) /\ s[j] = "1" THEN ScanNumber(s, j + 1) ELSE j

RECURSIVE ParseValue(_, _)
RECURSIVE ParseElems(_, _)
RECURSIVE ParseMembers(_, _)

ParseValue(s, i) ==
    IF i > Len(s) THEN 0
    ELSE IF s[i] = Q THEN ScanString(s, i + 1)
    ELSE IF s[i] = "1" THEN ScanNumber(s, i)
    ELSE IF s[i] = "["
         THEN LET j == SkipWs(s, i + 1)
              IN IF j <= Len(s) /\ s[j] = "]" THEN j + 1 ELSE ParseElems(s, j)
    ELSE IF s[i] = "{"
         THEN LET j == SkipWs(s, i + 1)
              IN IF j <= Len(s) /\ s[j] = "}" THEN j + 1 ELSE ParseMembers(s, j)
    ELSE 0

ParseElems(s, j) ==
    LET k == ParseValue(s, j)
        k2 == SkipWs(s, k)
    IN IF k = 0 \/ k2 > Len(s) THEN 0
       ELSE IF s[k2] = "," THEN ParseElems(s, SkipWs(s, k2 + 1))
       ELSE IF s[k2] = "]" THEN k2 + 1
       ELSE 0

ParseMembers(s, j) ==
    LET k == IF j <= Len(s) /\ s[j] = Q THEN ScanString(s, j + 1) ELSE 0
        c == SkipWs(s, k)
        v == IF k = 0 \/ c > Len(s) \/ s[c] /= ":" THEN 0 ELSE ParseValue(s, SkipWs(s, c + 1))
        e == SkipWs(s, v)
    IN IF v = 0 \/ e > Len(s) THEN 0
       ELSE IF s[e] = "," THEN ParseMembers(s, SkipWs(s, e + 1))
       ELSE IF s[e] = "}" THEN e + 1
       ELSE 0

\* json.Unmarshal(s, &tmp) with tmp interface{} returns no error
ValidJSON(s) ==
    LET i == SkipWs(s, 1)
        k == ParseValue(s, i)
    IN k /= 0 /\ SkipWs(s, k) = Len(s) + 1

\* the characters of a string literal's body with its escapes resolved
RECURSIVE Unescape(_)
Unescape(body) ==
    IF body = <<>> THEN <<>>
    ELSE IF Head(body) = BS /\ Len(body) >= 6 /\ body[2] = "u"
         THEN <<CodePoint(SubSeq(body, 3, 6))>> \o Unescape(SubSeq(body, 7, Len(body)))
    ELSE IF Head(body) = BS /\ Len(body) >= 2
         THEN <<EscapeChar(body[2])>> \o Unescape(SubSeq(body, 3, Len(body)))
    ELSE <<Head(body)>> \o Unescape(Tail(body))

\* json.Unmarshal(line, &unescaped) with unescaped string: [ok, s]
UnmarshalString(line) ==
    IF Len(line) >= 2 /\ line[1] = Q /\ ScanString(line, 2) = Len(line) + 1
    THEN [ok |-> TRUE, s |-> Unescape(SubSeq(line, 2, Len(line) - 1))]
    ELSE [ok |-> FALSE, s |-> <<>>]

(***************************************************************************)
(* extractJSONFromDockerOutput, docker.go                                  *)
(***************************************************************************)
\* "ichiran-cli: command not found", abbreviated to three characters
CmdNotFound == <<"c", "n", "f">>

\* what one iteration of the line loop finds in a trimmed line: [found, bytes]
ScanLine(line) ==
    IF Len(line) > 0
    THEN LET u == UnmarshalString(line)
         IN IF line[1] = Q /\ line[Len(line)] = Q /\ Len(line) > 2
               /\ u.ok /\ ValidJSON(u.s)
            THEN [found |-> TRUE, bytes |-> u.s]
            ELSE IF line[1] \in {"[", "{"} /\ ValidJSON(line)
                 THEN [found |-> TRUE, bytes |-> line]
                 ELSE [found |-> FALSE, bytes |-> <<>>]
    ELSE [found |-> FALSE, bytes |-> <<>>]

\* the for loop over the lines: the first line that qualifies is returned
RECURSIVE ScanLines(_)
ScanLines(ls) ==
    IF ls = <<>> THEN [err |-> "noJSONFound", bytes |-> <<>>]
    ELSE LET r == ScanLine(TrimSpace(Head(ls)))
         IN IF r.found THEN [err |-> "nil", bytes |-> r.bytes] ELSE ScanLines(Tail(ls))

\* readDockerOutput returns the concatenated payloads, trimmed
readDockerOutput(payload) == TrimSpace(payload)

extractJSONFromDockerOutput(payload) ==
    LET raw == readDockerOutput(payload)
    IN IF Contains(raw, CmdNotFound)
       THEN [err |-> "commandNotFound", bytes |-> <<>>]
       ELSE ScanLines(ReadLines(raw, <<>>))

\* Lines a command prints: diagnostics, JSON, quoted JSON, near misses.
LineCandidates == <<
    <<"a", "a">>,
    <<"[", "1", "]">>,
    <<"{", "}">>,
    <<"[", "1">>,
    <<Q, "[", "1", "]", Q>>,
    <<Q, "a", Q>>,
    <<Q, BS, Q, "a", BS, Q, Q>>,
    <<Q, Q>>,
    <<SP, "[", "1", "]", SP>>,
    <<>>,
    <<"a", "c", "n", "f">>,
    <<"1">>,
    <<Q, "{", BS, Q, "a", BS, Q, ":", "1", "}", Q>>,
    <<"{", Q, "a", Q, ":", "[", "1", ",", "1", "]", "}">>,
    <<Q, "1", Q>>,
    <<"[", Q, "c", "n", "f", Q, "]">> >>

RECURSIVE JoinLines(_)
JoinLines(ls) ==
    IF ls = <<>> THEN <<>>
    ELSE IF Len(ls) = 1 THEN Head(ls)
    ELSE Head(ls) \o <<NL>> \o JoinLines(Tail(ls))

ExtractIdle ==
    /\ rawOutput = <<>>
    /\ extractPc = "idle"
    /\ extractResult = [err |-> "none", bytes |-> <<>>]

DecodeIdle ==
    /\ output = [k |-> "null"]
    /\ loggerFatalExits = FALSE
    /\ loopVarShared = FALSE
    /\ decodePc = "idle"
    /\ parseResult = [err |-> "none", tokens |-> <<>>]
    /\ analyzeResult = [err |-> "none", tokens |-> <<>>]

TranslitIdle ==
    /\ tokens = <<>>
    /\ translit = <<>>

ReadyIdle ==
    /\ initChan = "open"
    /\ failedChan = "open"
    /\ initPc = "unused"
    /\ runs = 0
    /\ waited = FALSE
    /\ received = "none"
    /\ initErr = "none"
    /\ upGo = <<>>
    /\ sentinelLogged = FALSE
    /\ logCount = 0
    /\ panicAt = "none"

ManagerIdle ==
    /\ instance = 0
    /\ instanceClosed = FALSE
    /\ onceDone = FALSE
    /\ built = 0
    /\ closedMgrs = {}
    /\ analyzed = {}
    /\ callerPc = <<>>
    /\ callerGot = <<>>

ExecIdle ==
    /\ container = "none"
    /\ execPc = "idle"
    /\ execs = 0
    /\ exitCode = 0
    /\ inspected = [done |-> FALSE, err |-> FALSE, running |-> FALSE]
    /\ hitTeardown = FALSE

SafeIdle ==
    /\ text = <<>>
    /\ safePc = "idle"
    /\ safeArg = <<>>

MorphIdle ==
    /\ receiver = <<>>
    /\ morphemes = [called |-> FALSE, tokens |-> <<>>]

ReadIdle ==
    /\ frames = <<>>
    /\ sent = 0
    /\ peer = "open"
    /\ deadline = "pending"
    /\ readPc = "idle"
    /\ readErr = "none"
    /\ streamOpen = FALSE
    /\ got = 0

CallIdle == SafeIdle /\ MorphIdle /\ ReadIdle

ControlIdle == ReadyIdle /\ ManagerIdle /\ ExecIdle /\ CallIdle

InitExtract ==
    /\ \E n \in 0..MaxLines :
         \E pick \in [1..n -> 1..Len(LineCandidates)] :
            rawOutput = JoinLines([i \in 1..n |-> LineCandidates[pick[i]]])
    /\ extractPc = "start"
    /\ extractResult = [err |-> "none", bytes |-> <<>>]
    /\ DecodeIdle
    /\ TranslitIdle
    /\ ControlIdle

ExtractJSON ==
    /\ extractPc = "start"
    /\ extractResult' = extractJSONFromDockerOutput(rawOutput)
    /\ extractPc' = "done"
    /\ UNCHANGED <<rawOutput, decodeVars, translitVars, controlVars>>

NextExtract == ExtractJSON

SpecExtract == InitExtract /\ [][NextExtract]_vars

(***************************************************************************)
(* The decoded JSON answer (what decoder.Decode and json.Unmarshal build). *)
(***************************************************************************)
JStr(str) == [k |-> "str", s |-> str]
JNum(num) == [k |-> "num", n |-> num]
JBool(b) == [k |-> "bool", b |-> b]
JArr(elems) == [k |-> "arr", a |-> elems]
JObj(fields) == [k |-> "obj", o |-> fields]
JNull == [k |-> "null"]
\* bytes that are no JSON text at all
JInvalid == [k |-> "invalid"]

\* ZERO WIDTH NON-JOINER
ZWNJ == "U+200C"

\* the zero value of JSONToken (types.go)
ZeroToken ==
    [Surface |-> <<>>, IsLexical |-> FALSE, Reading |-> <<>>, Kana |-> <<>>,
     Romaji |-> <<>>, Score |-> 0, Alternative |-> <<>>, Components |-> <<>>]

\* extractCore and applyCore (types.go)
extractCore(token) ==
    [Surface |-> token.Surface, IsLexical |-> token.IsLexical, Reading |-> token.Reading,
     Kana |-> token.Kana, Romaji |-> token.Romaji, Score |-> token.Score]

applyCore(token, core) ==
    [token EXCEPT !.Surface = core.Surface, !.IsLexical = core.IsLexical,
                  !.Reading = core.Reading, !.Kana = core.Kana,
                  !.Romaji = core.Romaji, !.Score = core.Score]

\* strings.ReplaceAll(s, old, new) for a one-character old
RECURSIVE ReplaceAll(_, _, _)
ReplaceAll(s, old, new) ==
    IF s = <<>> THEN <<>>
    ELSE (IF Head(s) = old THEN new ELSE <<Head(s)>>) \o ReplaceAll(Tail(s), old, new)

\* unescapeUnicodeString: [ok, s]
unescapeUnicodeString(str) ==
    LET s1 == ReplaceAll(str, ZWNJ, <<>>)
        quoted == <<Q>> \o ReplaceAll(s1, Q, <<BS, Q>>) \o <<Q>>
    IN IF ~Contains(s1, <<BS, "u">>) THEN [ok |-> TRUE, s |-> s1]
       ELSE UnmarshalString(quoted)

\* decodeToken: [ok, t]; the first field that fails to unescape ends it
decodeToken(token) ==
    LET su == unescapeUnicodeString(token.Surface)
        re == unescapeUnicodeString(token.Reading)
        ka == unescapeUnicodeString(token.Kana)
    IN IF su.ok /\ re.ok /\ ka.ok
       THEN [ok |-> TRUE,
             t |-> [token EXCEPT !.Surface = su.s, !.Reading = re.s, !.Kana = ka.s]]
       ELSE [ok |-> FALSE, t |-> token]

\* a key of an object holds a value json.Unmarshal can store in a field of that kind
FieldFits(o, key, kind) == key \notin DOMAIN o \/ o[key].k \in {kind, "null"}

FieldSet(o, key) == key \in DOMAIN o /\ o[key].k /= "null"

\* json.Unmarshal on the elements of "components": [ok, ts]. It is
\* json.Unmarshal alone that fills a component; the inputs of the model nest
\* components one level deep, so a component's own components are empty.
UnmarshalComponents(elems) ==
    IF \A i \in 1..Len(elems) :
          \/ elems[i].k = "null"
          \/ /\ elems[i].k = "obj"
             /\ FieldFits(elems[i].o, "text", "str")
    THEN [ok |-> TRUE,
          ts |-> [i \in 1..Len(elems) |->
                     IF elems[i].k = "obj" /\ FieldSet(elems[i].o, "text")
                     THEN [ZeroToken EXCEPT !.Surface = elems[i].o.text.s]
                     ELSE ZeroToken]]
    ELSE [ok |-> FALSE, ts |-> <<>>]

\* json.Unmarshal(bytes, &token) on the marshalled value v: [ok, t].
\* null leaves the token untouched; the keys read are those of the struct
\* tags, and the names of the untagged fields IsLexical and Romaji.
UnmarshalToken(v) ==
    IF v.k = "null" THEN [ok |-> TRUE, t |-> ZeroToken]
    ELSE IF v.k /= "obj" THEN [ok |-> FALSE, t |-> ZeroToken]
    ELSE LET o == v.o
             WithComponents(c) ==
                IF /\ FieldFits(o, "text", "str") /\ FieldFits(o, "reading", "str")
                   /\ FieldFits(o, "kana", "str") /\ FieldFits(o, "score", "num")
                   /\ FieldFits(o, "IsLexical", "bool") /\ FieldFits(o, "Romaji", "str")
                   /\ FieldFits(o, "components", "arr") /\ c.ok
                THEN [ok |-> TRUE,
                      t |-> [Surface |-> IF FieldSet(o, "text") THEN o.text.s ELSE <<>>,
                             IsLexical |-> IF FieldSet(o, "IsLexical") THEN o.IsLexical.b
                                           ELSE FALSE,
                             Reading |-> IF FieldSet(o, "reading") THEN o.reading.s ELSE <<>>,
                             Kana |-> IF FieldSet(o, "kana") THEN o.kana.s ELSE <<>>,
                             Romaji |-> IF FieldSet(o, "Romaji") THEN o.Romaji.s ELSE <<>>,
                             Score |-> IF FieldSet(o, "score") THEN o.score.n ELSE 0,
                             Alternative |-> <<>>,
                             Components |-> c.ts]]
                ELSE [ok |-> FALSE, t |-> ZeroToken]
         IN WithComponents(UnmarshalComponents(
                IF FieldSet(o, "components") /\ o.components.k = "arr"
                THEN o.components.a ELSE <<>>))

\* the loop over altArray: the alternatives that unmarshal and decode, in order
RECURSIVE ParseAlternatives(_)
ParseAlternatives(altArray) ==
    IF altArray = <<>> THEN <<>>
    ELSE LET u == UnmarshalToken(Head(altArray))
             d == decodeToken(u.t)
         IN (IF u.ok /\ d.ok THEN <<d.t>> ELSE <<>>) \o ParseAlternatives(Tail(altArray))

\* one iteration of the loop over tokenGroups: [ok, t]; ok = FALSE is `continue`
DecodeEntry(tokenGroup) ==
    LET skip == [ok |-> FALSE, t |-> ZeroToken]
    IN IF tokenGroup.k /= "arr" THEN skip
       ELSE IF Len(tokenGroup.a) < 3 THEN skip
       ELSE IF tokenGroup.a[1].k /= "str" THEN skip
       ELSE IF tokenGroup.a[2].k /= "obj" THEN skip
       ELSE LET romaji == tokenGroup.a[1].s
                data == tokenGroup.a[2].o
            IN IF "alternative" \in DOMAIN data
               THEN IF data.alternative.k /= "arr" THEN skip
                    ELSE LET alternatives == ParseAlternatives(data.alternative.a)
                         IN IF Len(alternatives) > 0
                            THEN [ok |-> TRUE,
                                  t |-> [applyCore(ZeroToken, extractCore(alternatives[1]))
                                            EXCEPT !.Alternative = alternatives,
                                                   !.Romaji = romaji]]
                            ELSE skip
               ELSE LET u == UnmarshalToken(JObj(data))
                        d == decodeToken(u.t)
                    IN IF u.ok /\ d.ok
                       THEN [ok |-> TRUE, t |-> [d.t EXCEPT !.Romaji = romaji]]
                       ELSE skip

RECURSIVE DecodeEntries(_)
DecodeEntries(tokenGroups) ==
    IF tokenGroups = <<>> THEN <<>>
    ELSE LET e == DecodeEntry(Head(tokenGroups))
         IN (IF e.ok THEN <<e.t>> ELSE <<>>) \o DecodeEntries(Tail(tokenGroups))

\* extractTokens: [panic, tokens]. layer[0] of an empty layer is an index out
\* of range, a run-time panic.
extractTokens(group) ==
    IF Len(group) < 1 THEN [panic |-> FALSE, tokens |-> <<>>]
    ELSE IF group[1].k /= "arr" THEN [panic |-> FALSE, tokens |-> <<>>]
    ELSE IF Len(group[1].a) = 0 THEN [panic |-> TRUE, tokens |-> <<>>]
    ELSE IF group[1].a[1].k /= "arr" THEN [panic |-> FALSE, tokens |-> <<>>]
    ELSE [panic |-> FALSE, tokens |-> DecodeEntries(group[1].a[1].a)]

\* decoder.Decode(&rawResult) with rawResult []interface{} returns an error:
\* the bytes are no JSON, or hold a value that is neither an array nor null
DecodeFails(out) == out.k \notin {"arr", "null"}

\* what `for _, t := range extracted { t.IsLexical = true; tokens = append(tokens, &t) }`
\* leaves reachable through the appended pointers: with one variable t for the
\* whole loop every pointer sees its last value, with one per iteration its own
AppendExtracted(extracted, shared) ==
    [i \in 1..Len(extracted) |->
        [extracted[IF shared THEN Len(extracted) ELSE i] EXCEPT !.IsLexical = TRUE]]

\* the loop of parseOutput over rawResult: [st, tokens], st one of
\* "ok", "errSegment" (return nil, err), "panic"
RECURSIVE ParseItems(_, _, _)
ParseItems(items, acc, shared) ==
    IF items = <<>> THEN [st |-> "ok", tokens |-> acc]
    ELSE LET item == Head(items)
         IN IF item.k = "str"
            THEN LET u == unescapeUnicodeString(item.s)
                 IN IF ~u.ok THEN [st |-> "errSegment", tokens |-> <<>>]
                    ELSE ParseItems(Tail(items),
                                    Append(acc, [ZeroToken EXCEPT !.Surface = u.s]), shared)
            ELSE IF item.k = "arr"
            THEN LET x == extractTokens(item.a)
                 IN IF x.panic THEN [st |-> "panic", tokens |-> <<>>]
                    ELSE ParseItems(Tail(items),
                                    acc \o AppendExtracted(x.tokens, shared), shared)
            ELSE ParseItems(Tail(items), acc, shared)

\* parseOutput after a successful decode
parseOutput(out, shared) ==
    ParseItems(IF out.k = "null" THEN <<>> ELSE out.a, <<>>, shared)

(***************************************************************************)
(* Inputs of the decoder.                                                  *)
(***************************************************************************)
MaxItems == 2

sWatashi == <<"U+79C1">>
sGakusei == <<"U+5B66", "U+751F">>
sEscaped == <<BS, "u", "4", "e", "0", "0">>
sMalformed == <<BS, "u", "4", "e">>
sJoiner == <<"U+3044", ZWNJ>>
sPunct == <<"U+3002">>

dWatashi == [text |-> JStr(sWatashi), kana |-> JStr(<<"U+308F">>),
             reading |-> JStr(sWatashi), score |-> JNum(1)]
dGakusei == [text |-> JStr(sGakusei), kana |-> JStr(<<"U+304C">>),
             reading |-> JStr(sGakusei), score |-> JNum(2)]
dEscaped == [text |-> JStr(sEscaped), kana |-> JStr(sJoiner), score |-> JNum(3)]
dMalformed == [text |-> JStr(sWatashi), kana |-> JStr(sMalformed)]
dWrongType == [text |-> JNum(1)]
dNamed == [text |-> JStr(sWatashi), IsLexical |-> JBool(TRUE), Romaji |-> JStr(<<"w">>)]
dCompound == [text |-> JStr(sWatashi \o sGakusei), kana |-> JStr(<<"U+308F">>),
              components |-> JArr(<<JObj(dWatashi), JObj(dGakusei)>>)]
dCompoundEscaped == [text |-> JStr(sEscaped \o sWatashi), kana |-> JStr(<<"U+308F">>),
                     components |-> JArr(<<JObj([text |-> JStr(sEscaped)]),
                                           JObj(dWatashi)>>)]

Entry(romaji, datum) == JArr(<<JStr(romaji), datum, JArr(<<>>)>>)
AltEntry(romaji, alts) == Entry(romaji, JObj([alternative |-> alts]))

eWatashi == Entry(<<"w">>, JObj(dWatashi))
eGakusei == Entry(<<"g">>, JObj(dGakusei))
eEscaped == Entry(<<"i">>, JObj(dEscaped))
eShort == JArr(<<JStr(<<"w">>), JObj(dWatashi)>>)
eNoRomaji == JArr(<<JNum(1), JObj(dWatashi), JArr(<<>>)>>)
eNoObject == Entry(<<"w">>, JStr(sWatashi))
eMalformed == Entry(<<"w">>, JObj(dMalformed))
eWrongType == Entry(<<"w">>, JObj(dWrongType))
eCompound == Entry(<<"w", "g">>, JObj(dCompound))
eCompoundEscaped == Entry(<<"i", "w">>, JObj(dCompoundEscaped))

\* a top-level group: [[[entries...], score]]
Group(entries) == JArr(<<JArr(<<JArr(entries), JNum(5)>>)>>)

ItemCandidates == <<
    JStr(sPunct),
    JStr(sMalformed),
    JStr(sEscaped),
    JNum(7),
    JArr(<<>>),
    JArr(<<JNum(7)>>),
    JArr(<<JArr(<<>>)>>),
    JArr(<<JArr(<<JStr(sPunct)>>)>>),
    Group(<<eWatashi, JNum(7), eGakusei>>),
    Group(<<eWatashi, eShort, eNoRomaji, eNoObject, JStr(sPunct), eGakusei>>),
    Group(<<AltEntry(<<"w">>, JArr(<<JObj(dWatashi), JObj(dGakusei)>>))>>),
    Group(<<AltEntry(<<"g">>, JArr(<<JObj(dMalformed), JObj(dGakusei), JObj(dWatashi)>>)),
            eMalformed, eWrongType>>),
    Group(<<AltEntry(<<"w">>, JArr(<<JObj(dWrongType), JStr(sPunct)>>)),
            AltEntry(<<"w">>, JStr(sPunct))>>),
    Group(<<AltEntry(<<>>, JArr(<<JNull>>)), AltEntry(<<"w">>, JArr(<<JObj(dNamed)>>))>>),
    Group(<<eEscaped>>),
    Group(<<eCompound, eWatashi>>),
    Group(<<eCompoundEscaped>>) >>

\* answers that are no array
OtherOutputs == <<JInvalid, JNull, JObj([a |-> JNum(1)]), JStr(sPunct), JNum(1)>>

InitDecode ==
    /\ \/ \E n \in 0..MaxItems :
            \E pick \in [1..n -> 1..Len(ItemCandidates)] :
               output = JArr([i \in 1..n |-> ItemCandidates[pick[i]]])
       \/ \E i \in 1..Len(OtherOutputs) : output = OtherOutputs[i]
    /\ loggerFatalExits \in BOOLEAN
    /\ loopVarShared \in BOOLEAN
    /\ decodePc = "parse"
    /\ parseResult = [err |-> "none", tokens |-> <<>>]
    /\ analyzeResult = [err |-> "none", tokens |-> <<>>]
    /\ ExtractIdle
    /\ TranslitIdle
    /\ ControlIdle

\* parseOutput, as called by Analyze (ichiran.go). Logger.Fatal() on the decode
\* error ends the process where the logging library exits on Fatal.
ParseOutput ==
    /\ decodePc = "parse"
    /\ IF DecodeFails(output)
       THEN IF loggerFatalExits
            THEN decodePc' = "exited" /\ UNCHANGED parseResult
            ELSE /\ parseResult' = [err |-> "failed to decode JSON", tokens |-> <<>>]
                 /\ decodePc' = "parsed"
       ELSE LET r == parseOutput(output, loopVarShared)
            IN IF r.st = "panic"
               THEN decodePc' = "panicked" /\ UNCHANGED parseResult
               ELSE /\ parseResult' =
                         [err |-> IF r.st = "ok" THEN "nil" ELSE "failed to decode segment",
                          tokens |-> r.tokens]
                    /\ decodePc' = "parsed"
    /\ UNCHANGED <<output, loggerFatalExits, loopVarShared, analyzeResult,
                   extractVars, translitVars, controlVars>>

\* the end of Analyze: the parse error is wrapped, or the tokens are returned
AnalyzeReturn ==
    /\ decodePc = "parsed"
    /\ analyzeResult' =
          IF parseResult.err /= "nil"
          THEN [err |-> "failed to parse output", tokens |-> <<>>]
          ELSE [err |-> "nil", tokens |-> parseResult.tokens]
    /\ decodePc' = "returned"
    /\ UNCHANGED <<output, loggerFatalExits, loopVarShared, parseResult,
                   extractVars, translitVars, controlVars>>

NextDecode == ParseOutput \/ AnalyzeReturn

SpecDecode == InitDecode /\ [][NextDecode]_vars

(***************************************************************************)
(* selectiveTranslit (selective.go).                                       *)
(***************************************************************************)
MaxTokens == 2
MaxThreshold == 5

\* the characters of the model, named by code point
cIchi == "U+4E00"
cNi == "U+4E8C"
cSan == "U+4E09"
cTaito == "U+9F98"
cI == "U+3044"
cChi == "U+3061"
cNiKana == "U+306B"
cSokuon == "U+3063"

HanChars == {cIchi, cNi, cSan, cTaito}
KanaChars == {cI, cChi, cNiKana, cSokuon}

\* the number of bytes of a character in UTF-8: the kanji and kana lie in
\* U+0800..U+FFFF, every other character of the model is ASCII
Utf8Width(c) == IF c \in HanChars \cup KanaChars THEN 3 ELSE 1

\* len(s) of a Go string is its number of bytes
RECURSIVE ByteLen(_)
ByteLen(s) == IF s = <<>> THEN 0 ELSE Utf8Width(Head(s)) + ByteLen(Tail(s))

StatusPreserved == 0
StatusIrregular == 1
StatusInfrequent == 2
StatusUnmappable == 3
StatusNotKanji == 4

\* the frequency list as cmd parser prints it: make([]string, maxIndex+1)
\* filled at index-1, which leaves the last element empty
kanjiFreqSlice == <<<<cIchi>>, <<cNi>>, <<cSan>>, <<>>>>

\* slices.Index
Index(s, v) ==
    IF \E i \in 1..Len(s) : s[i] = v
    THEN (CHOOSE i \in 1..Len(s) : s[i] = v /\ \A j \in 1..(i - 1) : s[j] /= v) - 1
    ELSE -1

isRegularReading(reading) == reading.Link /\ reading.Geminated = <<>>

ContainsKanjisAlways(s) == TRUE
ContainsKanjis(s) == \E i \in 1..Len(s) : s[i] \in HanChars

\* freq += 1
RankZeroBased(idx) == idx
Rank(idx) == idx + 1

\* freq > 0 && freq <= freqThreshold
WithinThresholdInverted(freq, freqThreshold) == freq > 0 /\ freq >= freqThreshold
WithinThresholdOffByOne(freq, freqThreshold) == freq > 0 /\ freq <= freqThreshold + 1
WithinThreshold(freq, freqThreshold) == freq > 0 /\ freq <= freqThreshold

\* the loop over the runes of a compound: it stops at the first kanji that is
\* not preserved
IndividualResultsHeadOnly(kanji, freqThreshold) ==
    LET idx == Index(kanjiFreqSlice, <<Head(kanji)>>)
    IN IF idx > -1 /\ idx + 1 <= freqThreshold
       THEN [allPreserved |-> TRUE, results |-> <<<<Head(kanji)>>>>]
       ELSE [allPreserved |-> FALSE, results |-> <<>>]

RECURSIVE IndividualResults(_, _)
IndividualResults(kanji, freqThreshold) ==
    IF kanji = <<>> THEN [allPreserved |-> TRUE, results |-> <<>>]
    ELSE LET singleKanji == <<Head(kanji)>>
             idx == Index(kanjiFreqSlice, singleKanji)
             exists == idx > -1
             freq == IF exists THEN Rank(idx) ELSE idx
             shouldPreserveKanji == exists /\ WithinThreshold(freq, freqThreshold)
         IN IF shouldPreserveKanji
            THEN LET rest == IndividualResults(Tail(kanji), freqThreshold)
                 IN [allPreserved |-> rest.allPreserved,
                     results |-> <<singleKanji>> \o rest.results]
            ELSE [allPreserved |-> FALSE, results |-> <<>>]

ProcessCompound(r, freqThreshold) ==
    LET individual == IndividualResults(r.Kanji, freqThreshold)
    IN IF individual.allPreserved
       THEN [Original |-> r.Kanji, Result |-> Concat(individual.results),
             Status |-> StatusPreserved]
       ELSE [Original |-> r.Kanji, Result |-> r.Reading, Status |-> StatusInfrequent]

ProcessSingleKeepsReading(r, freqThreshold) ==
    [Original |-> r.Kanji, Result |-> r.Reading,
     Status |-> IF Index(kanjiFreqSlice, r.Kanji) > -1
                   /\ WithinThreshold(Rank(Index(kanjiFreqSlice, r.Kanji)), freqThreshold)
                   /\ isRegularReading(r)
                THEN StatusPreserved ELSE StatusInfrequent]
ProcessSingle(r, freqThreshold) ==
    LET kanji == r.Kanji
        idx == Index(kanjiFreqSlice, kanji)
        exists == idx > -1
        freq == IF exists THEN Rank(idx) ELSE idx
        isRegular == isRegularReading(r)
        shouldPreserve == exists /\ WithinThreshold(freq, freqThreshold) /\ isRegular
    IN IF shouldPreserve
       THEN [Original |-> kanji, Result |-> kanji, Status |-> StatusPreserved]
       ELSE [Original |-> kanji, Result |-> r.Reading,
             Status |-> IF ~exists \/ freq > freqThreshold THEN StatusInfrequent
                        ELSE IF ~isRegularReading(r) THEN StatusIrregular
                        ELSE StatusUnmappable]

\* len(r.Kanji) > 1 counts bytes
ProcessReading(r, freqThreshold) ==
    IF ByteLen(r.Kanji) > 1 THEN ProcessCompound(r, freqThreshold)
    ELSE ProcessSingle(r, freqThreshold)

\* one iteration of the loop over the tokens: what it writes to finalResult
\* and what it appends to allProcessedTokens
ProcessToken(token, freqThreshold) ==
    IF ~token.IsLexical \/ ~ContainsKanjis(token.Surface)
    THEN [Text |-> token.Surface,
          Tokens |-> <<[Original |-> token.Surface, Result |-> token.Surface,
                        Status |-> StatusNotKanji]>>]
    ELSE IF Len(token.KanjiReadings) = 0
    THEN [Text |-> token.Surface,
          Tokens |-> <<[Original |-> token.Surface, Result |-> token.Surface,
                        Status |-> StatusUnmappable]>>]
    ELSE LET processed == [i \in 1..Len(token.KanjiReadings) |->
                              ProcessReading(token.KanjiReadings[i], freqThreshold)]
             tokenResult == Concat([i \in 1..Len(processed) |-> processed[i].Result])
         IN [Text |-> IF ByteLen(tokenResult) = 0 THEN token.Kana ELSE tokenResult,
             Tokens |-> processed]

selectiveTranslitFirstOnly(toks, freqThreshold) ==
    LET each == [i \in 1..Len(toks) |-> ProcessToken(toks[i], freqThreshold)]
    IN [Text |-> IF Len(each) = 0 THEN <<>> ELSE each[1].Text,
        Tokens |-> Concat([i \in 1..Len(each) |-> each[i].Tokens])]
selectiveTranslit(toks, freqThreshold) ==
    LET each == [i \in 1..Len(toks) |-> ProcessToken(toks[i], freqThreshold)]
    IN [Text |-> Concat([i \in 1..Len(each) |-> each[i].Text]),
        Tokens |-> Concat([i \in 1..Len(each) |-> each[i].Tokens])]

(***************************************************************************)
(* Inputs of selectiveTranslit: tokens as Analyze leaves them, with the    *)
(* kanji readings attached to them.                                        *)
(***************************************************************************)
KanjiReading(kanji, reading, link, geminated) ==
    [Kanji |-> kanji, Reading |-> reading, Link |-> link, Geminated |-> geminated]

Token(surface, isLexical, kana, readings) ==
    [Surface |-> surface, IsLexical |-> isLexical, Kana |-> kana, KanjiReadings |-> readings]

rIchi == KanjiReading(<<cIchi>>, <<cI, cChi>>, TRUE, <<>>)
rNiUnlinked == KanjiReading(<<cNi>>, <<cNiKana>>, FALSE, <<>>)
rSanGeminated == KanjiReading(<<cSan>>, <<cSokuon>>, TRUE, <<cSokuon>>)
rTaito == KanjiReading(<<cTaito>>, <<cChi>>, TRUE, <<>>)
rIchiNi == KanjiReading(<<cIchi, cNi>>, <<cI, cNiKana>>, TRUE, <<>>)
rEmpty == KanjiReading(<<>>, <<cI>>, TRUE, <<>>)
rEmptyUnlinked == KanjiReading(<<>>, <<cI>>, FALSE, <<>>)
rAscii == KanjiReading(<<"a">>, <<>>, TRUE, <<>>)
rNiSanUnlinked == KanjiReading(<<cNi, cSan>>, <<cNiKana, cSokuon>>, FALSE, <<>>)

TokenCandidates ==
    << Token(<<cIchi>>, TRUE, <<cI, cChi>>, <<rIchi>>),
       Token(<<cNi>>, TRUE, <<cNiKana>>, <<rNiUnlinked>>),
       Token(<<cSan, cI>>, TRUE, <<cSokuon, cI>>, <<rSanGeminated>>),
       Token(<<cTaito>>, TRUE, <<cChi>>, <<rTaito>>),
       Token(<<cIchi, cNi>>, TRUE, <<cI, cNiKana>>, <<rIchiNi>>),
       Token(<<cIchi, cSan>>, TRUE, <<cI, cSokuon>>, <<rIchi, rSanGeminated>>),
       Token(<<cI>>, TRUE, <<cI>>, <<>>),
       Token(<<cIchi>>, FALSE, <<>>, <<rIchi>>),
       Token(<<cNi>>, TRUE, <<cNiKana>>, <<>>),
       Token(<<cIchi>>, TRUE, <<cChi>>, <<rEmpty>>),
       Token(<<cNi>>, TRUE, <<cNiKana>>, <<rEmptyUnlinked>>),
       Token(<<cSan>>, TRUE, <<cSokuon>>, <<rAscii>>),
       Token(<<cNi, cSan>>, TRUE, <<cNiKana, cSokuon>>, <<rNiSanUnlinked>>),
       Token(<<cIchi, cI>>, TRUE, <<cI, cChi, cI>>, <<rIchi>>) >>

Thresholds == 0..MaxThreshold

NotCalled == [called |-> FALSE, Text |-> <<>>, Tokens |-> <<>>]

InitTranslit ==
    /\ \E n \in 0..MaxTokens :
         \E pick \in [1..n -> 1..Len(TokenCandidates)] :
            tokens = [i \in 1..n |-> TokenCandidates[pick[i]]]
    /\ translit = [t \in Thresholds |-> NotCalled]
    /\ ExtractIdle
    /\ DecodeIdle
    /\ ControlIdle

\* tokens.SelectiveTranslitFullMapping(freqThreshold)
Translit(freqThreshold) ==
    /\ ~translit[freqThreshold].called
    /\ translit' = [translit EXCEPT ![freqThreshold] =
                       [called |-> TRUE,
                        Text |-> selectiveTranslit(tokens, freqThreshold).Text,
                        Tokens |-> selectiveTranslit(tokens, freqThreshold).Tokens]]
    /\ UNCHANGED <<tokens, extractVars, decodeVars, controlVars>>

NextTranslit == \E freqThreshold \in Thresholds : Translit(freqThreshold)

SpecTranslit == InitTranslit /\ [][NextTranslit]_vars

(***************************************************************************)
(* Docker.Initialize and IchiranLogConsumer.Log (docker.go): the start     *)
(* goroutine, the two unbuffered channels of the logger and the three-way  *)
(* wait. The channels are made once, by NewIchiranLogConsumer, and serve   *)
(* every call of Initialize on the Docker.                                 *)
(***************************************************************************)
MaxRuns == 2
MaxLogs == 2

Runs == 1..MaxRuns

Lowers == <<"a", "b", "c", "d", "e", "f", "g", "h", "i", "j", "k", "l", "m",
            "n", "o", "p", "q", "r", "s", "t", "u", "v", "w", "x", "y", "z">>
Uppers == <<"A", "B", "C", "D", "E", "F", "G", "H", "I", "J", "K", "L", "M",
            "N", "O", "P", "Q", "R", "S", "T", "U", "V", "W", "X", "Y", "Z">>

\* strings.ToUpper
ToUpper(s) ==
    [i \in 1..Len(s) |->
        IF \E k \in 1..Len(Lowers) : Lowers[k] = s[i]
        THEN Uppers[CHOOSE k \in 1..Len(Lowers) : Lowers[k] = s[i]]
        ELSE s[i]]

\* strings.HasPrefix
HasPrefix(s, prefix) == Len(s) >= Len(prefix) /\ SubSeq(s, 1, Len(prefix)) = prefix

\* the status constants of the compose api
apiRUNNING == <<"r", "u", "n", "n", "i", "n", "g">>
apiSTARTING == <<"s", "t", "a", "r", "t", "i", "n", "g">>
apiUPDATING == <<"u", "p", "d", "a", "t", "i", "n", "g">>
apiREMOVING == <<"r", "e", "m", "o", "v", "i", "n", "g">>
apiUNKNOWN == <<"u", "n", "k", "n", "o", "w", "n">>
apiFAILED == <<"f", "a", "i", "l", "e", "d">>

std(status) ==
    LET up == ToUpper(status)
    IN IF HasPrefix(up, ToUpper(apiRUNNING)) THEN apiRUNNING
       ELSE IF HasPrefix(up, ToUpper(apiSTARTING)) THEN apiSTARTING
       ELSE IF HasPrefix(up, ToUpper(apiUPDATING)) THEN apiUPDATING
       ELSE IF HasPrefix(up, ToUpper(apiREMOVING)) THEN apiREMOVING
       ELSE IF HasPrefix(up, ToUpper(apiUNKNOWN)) THEN apiUNKNOWN
       ELSE apiFAILED

\* what id.Status() can return: an error, or the status of the stack
StatusCandidates ==
    << [err |-> TRUE, status |-> <<>>],
       [err |-> FALSE, status |-> apiRUNNING \o <<"(", "2", ")">>],
       [err |-> FALSE, status |-> <<"R", "u", "n", "n", "i", "n", "g">>],
       [err |-> FALSE, status |-> <<"e", "x", "i", "t", "e", "d", "(", "1", ")">>],
       [err |-> FALSE, status |-> apiSTARTING],
       [err |-> FALSE, status |-> apiUNKNOWN],
       [err |-> FALSE, status |-> <<"n", "o", "t", " ">> \o apiRUNNING] >>

\* the tail of Initialize, once the channels are closed
StatusOutcome(st) ==
    IF st.err THEN "status check failed"
    ELSE IF std(st.status) /= apiRUNNING THEN "services failed to reach running state"
    ELSE "nil"

\* how a call of Initialize can end before it starts the stack, or "up"
EntryOutcomes == {"failed to list stacks", "already running", "setup failed", "up"}

InitReady ==
    /\ initChan = "open"
    /\ failedChan = "open"
    /\ initPc = "idle"
    /\ runs = 0
    /\ waited = FALSE
    /\ received = "none"
    /\ initErr = "none"
    /\ upGo = [i \in Runs |-> "none"]
    /\ sentinelLogged = FALSE
    /\ logCount = 0
    /\ panicAt = "none"
    /\ ExtractIdle
    /\ DecodeIdle
    /\ TranslitIdle
    /\ ManagerIdle
    /\ ExecIdle
    /\ CallIdle

Alive == panicAt = "none"

\* Initialize up to `go func() { Up ... }()`: the early returns, or the
\* goroutine is started and Initialize goes on towards its select
InitializeStart(entry) ==
    /\ Alive /\ initPc = "idle" /\ runs < MaxRuns
    /\ runs' = runs + 1
    /\ received' = "none"
    /\ sentinelLogged' = FALSE
    /\ IF entry = "up"
       THEN /\ upGo' = [upGo EXCEPT ![runs + 1] = "running"]
            /\ initPc' = "started"
            /\ waited' = TRUE
            /\ initErr' = "none"
       ELSE /\ initErr' = IF entry = "already running" THEN "nil" ELSE entry
            /\ waited' = FALSE
            /\ UNCHANGED <<upGo, initPc>>
    /\ UNCHANGED <<initChan, failedChan, logCount, panicAt>>
    /\ UNCHANGED notReadyVars

\* Initialize arrives at `select {` and waits on the three cases
EnterSelect ==
    /\ Alive /\ initPc = "started"
    /\ initPc' = "select"
    /\ UNCHANGED <<initChan, failedChan, runs, waited, received, initErr, upGo,
                   sentinelLogged, logCount, panicAt>>
    /\ UNCHANGED notReadyVars

\* Log(containerName, message), called for the stack a goroutine attached to:
\* the send on initChan is taken only by a select that is waiting
Log(i, hasSentinel) ==
    /\ Alive /\ upGo[i] = "running" /\ logCount < MaxLogs
    /\ logCount' = logCount + 1
    /\ IF ~hasSentinel
       THEN UNCHANGED <<initPc, received, sentinelLogged, panicAt>>
       ELSE /\ sentinelLogged' = TRUE
            /\ IF initChan = "closed"
               THEN panicAt' = "Log" /\ UNCHANGED <<initPc, received>>
               ELSE IF initPc = "select"
               THEN initPc' = "ready" /\ received' = "sentinel" /\ UNCHANGED panicAt
               ELSE UNCHANGED <<initPc, received, panicAt>>
    /\ UNCHANGED <<initChan, failedChan, runs, waited, initErr, upGo>>
    /\ UNCHANGED notReadyVars

\* service.Up returns in the goroutine; with an error the goroutine goes on
\* to `id.logger.failedChan <- ...`
UpReturns(i, failed) ==
    /\ Alive /\ upGo[i] = "running"
    /\ upGo' = [upGo EXCEPT ![i] = IF failed THEN "sending" ELSE "returned"]
    /\ UNCHANGED <<initChan, failedChan, initPc, runs, waited, received, initErr,
                   sentinelLogged, logCount, panicAt>>
    /\ UNCHANGED notReadyVars

\* the send on failedChan: it panics on a closed channel, is taken by the
\* select of Initialize, and blocks otherwise
FailedSend(i) ==
    /\ Alive /\ upGo[i] = "sending"
    /\ \/ /\ failedChan = "closed"
          /\ panicAt' = "up"
          /\ upGo' = [upGo EXCEPT ![i] = "panicked"]
          /\ UNCHANGED <<initPc, received, initErr>>
       \/ /\ failedChan = "open" /\ initPc = "select"
          /\ upGo' = [upGo EXCEPT ![i] = "done"]
          /\ initPc' = "idle"
          /\ received' = "failed"
          /\ initErr' = "container startup failed"
          /\ UNCHANGED panicAt
    /\ UNCHANGED <<initChan, failedChan, runs, waited, sentinelLogged, logCount>>
    /\ UNCHANGED notReadyVars

\* a receive case of the select fires on a closed channel: it yields the zero
\* value, so `return err` returns nil
SelectClosed ==
    /\ Alive /\ initPc = "select"
    /\ \/ /\ initChan = "closed"
          /\ initPc' = "ready" /\ received' = "closed"
          /\ UNCHANGED initErr
       \/ /\ failedChan = "closed"
          /\ initPc' = "idle" /\ received' = "failed closed"
          /\ initErr' = "nil"
    /\ UNCHANGED <<initChan, failedChan, runs, waited, upGo, sentinelLogged, logCount,
                   panicAt>>
    /\ UNCHANGED notReadyVars

\* case <-time.After(DockerStartTO)
Timeout ==
    /\ Alive /\ initPc = "select"
    /\ initPc' = "idle"
    /\ received' = "timeout"
    /\ initErr' = "timeout waiting for ichiran to initialize"
    /\ UNCHANGED <<initChan, failedChan, runs, waited, upGo, sentinelLogged, logCount,
                   panicAt>>
    /\ UNCHANGED notReadyVars

\* close(id.logger.initChan); close(id.logger.failedChan)
CloseChannels ==
    /\ Alive /\ initPc = "ready"
    /\ IF initChan = "closed" \/ failedChan = "closed"
       THEN panicAt' = "Initialize" /\ UNCHANGED <<initChan, failedChan, initPc>>
       ELSE /\ initChan' = "closed" /\ failedChan' = "closed"
            /\ initPc' = "status"
            /\ UNCHANGED panicAt
    /\ UNCHANGED <<runs, waited, received, initErr, upGo, sentinelLogged, logCount>>
    /\ UNCHANGED notReadyVars

\* status, err := id.Status() and the two tests on it
StatusCheck(st) ==
    /\ Alive /\ initPc = "status"
    /\ initErr' = StatusOutcome(st)
    /\ initPc' = "idle"
    /\ UNCHANGED <<initChan, failedChan, runs, waited, received, upGo, sentinelLogged,
                   logCount, panicAt>>
    /\ UNCHANGED notReadyVars

NextReady ==
    \/ \E entry \in EntryOutcomes : InitializeStart(entry)
    \/ EnterSelect
    \/ \E i \in Runs, hasSentinel \in BOOLEAN : Log(i, hasSentinel)
    \/ \E i \in Runs, failed \in BOOLEAN : UpReturns(i, failed)
    \/ \E i \in Runs : FailedSend(i)
    \/ SelectClosed
    \/ Timeout
    \/ CloseChannels
    \/ \E k \in 1..Len(StatusCandidates) : StatusCheck(StatusCandidates[k])

SpecReady == InitReady /\ [][NextReady]_vars

(***************************************************************************)
(* The default manager (docker.go). The file holds two generations of the  *)
(* package-level functions: newDocker with sync.Once behind Init, and      *)
(* getOrCreateDefaultManager with instanceClosed behind InitWithContext.   *)
(* Both work on the package variable `instance`; the section of code       *)
(* between mu.Lock() and the deferred mu.Unlock() is one step.             *)
(***************************************************************************)
MaxCallers == 3
MaxInits == 3

Callers == 1..MaxCallers

NoResult == [mgr |-> 0, err |-> "none"]

InitManagerVars ==
    /\ instance = 0
    /\ instanceClosed = FALSE
    /\ onceDone = FALSE
    /\ built = 0
    /\ closedMgrs = {}
    /\ analyzed = {}
    /\ callerPc = [c \in Callers |-> "idle"]
    /\ callerGot = [c \in Callers |-> NoResult]
    /\ ExtractIdle
    /\ DecodeIdle
    /\ TranslitIdle
    /\ ReadyIdle
    /\ ExecIdle
    /\ CallIdle

\* Init(), first generation: `if instance == nil {`, read without the mutex
InitEnter(c) ==
    /\ callerPc[c] = "idle"
    /\ \A d \in Callers : callerPc[d] /= "panicked"
    /\ callerPc' = [callerPc EXCEPT ![c] = IF instance = 0 THEN "newDocker" ELSE "use"]
    /\ callerGot' = [callerGot EXCEPT ![c] = NoResult]
    /\ UNCHANGED <<instance, instanceClosed, onceDone, built, closedMgrs, analyzed>>
    /\ UNCHANGED notManagerVars

\* MustInit(), first generation: `if instance == nil { newDocker() }`, the
\* error of newDocker is dropped
MustInitEnter(c) ==
    /\ callerPc[c] = "idle"
    /\ \A d \in Callers : callerPc[d] /= "panicked"
    /\ callerPc' = [callerPc EXCEPT ![c] = IF instance = 0 THEN "newDockerMust" ELSE "use"]
    /\ callerGot' = [callerGot EXCEPT ![c] = NoResult]
    /\ UNCHANGED <<instance, instanceClosed, onceDone, built, closedMgrs, analyzed>>
    /\ UNCHANGED notManagerVars

\* newDocker(): once.Do runs the constructor in the first call only; initErr
\* is a local of each call. Init returns its error, MustInit goes on.
newDocker(c, constructed) ==
    /\ callerPc[c] \in {"newDocker", "newDockerMust"}
    /\ \A d \in Callers : callerPc[d] /= "panicked"
    /\ IF ~onceDone
       THEN /\ onceDone' = TRUE
            /\ IF constructed
               THEN /\ built' = built + 1
                    /\ instance' = built + 1
                    /\ callerPc' = [callerPc EXCEPT ![c] = "use"]
                    /\ UNCHANGED callerGot
               ELSE /\ IF callerPc[c] = "newDockerMust"
                       THEN /\ callerPc' = [callerPc EXCEPT ![c] = "use"]
                            /\ UNCHANGED callerGot
                       ELSE /\ callerPc' = [callerPc EXCEPT ![c] = "returned"]
                            /\ callerGot' = [callerGot EXCEPT ![c] =
                                                [mgr |-> 0, err |-> "construction failed"]]
                    /\ UNCHANGED <<built, instance>>
       ELSE /\ callerPc' = [callerPc EXCEPT ![c] = "use"]
            /\ UNCHANGED <<onceDone, built, instance, callerGot>>
    /\ UNCHANGED <<instanceClosed, closedMgrs, analyzed>>
    /\ UNCHANGED notManagerVars

\* return instance.docker.Init(), and instance.docker.InitRecreateNoCache() in
\* MustInit: a nil instance is a nil pointer dereference
UseInstance(c) ==
    /\ callerPc[c] = "use"
    /\ \A d \in Callers : callerPc[d] /= "panicked"
    /\ IF instance = 0
       THEN callerPc' = [callerPc EXCEPT ![c] = "panicked"] /\ UNCHANGED callerGot
       ELSE /\ callerPc' = [callerPc EXCEPT ![c] = "returned"]
            /\ callerGot' = [callerGot EXCEPT ![c] = [mgr |-> instance, err |-> "nil"]]
    /\ UNCHANGED <<instance, instanceClosed, onceDone, built, closedMgrs, analyzed>>
    /\ UNCHANGED notManagerVars

NextOnce ==
    \/ \E c \in Callers : InitEnter(c)
    \/ \E c \in Callers : MustInitEnter(c)
    \/ \E c \in Callers, constructed \in BOOLEAN : newDocker(c, constructed)
    \/ \E c \in Callers : UseInstance(c)

SpecOnce == InitManagerVars /\ [][NextOnce]_vars

\* if instance == nil || instanceClosed
NeedsNewManagerWhenNil == instance = 0
NeedsNewManager == instance = 0 \/ instanceClosed

\* getOrCreateDefaultManager(ctx), called by InitWithContext
getOrCreateDefaultManager(c, constructed) ==
    /\ callerPc[c] \in {"idle", "returned"}
    /\ built < MaxInits
    /\ IF NeedsNewManager
       THEN IF constructed
            THEN /\ built' = built + 1
                 /\ instance' = built + 1
                 /\ instanceClosed' = FALSE
                 /\ callerPc' = [callerPc EXCEPT ![c] = "init"]
                 /\ callerGot' = [callerGot EXCEPT ![c] = [mgr |-> built + 1, err |-> "none"]]
            ELSE /\ callerPc' = [callerPc EXCEPT ![c] = "returned"]
                 /\ callerGot' = [callerGot EXCEPT ![c] =
                                     [mgr |-> 0, err |-> "failed to create default manager"]]
                 /\ UNCHANGED <<built, instance, instanceClosed>>
       ELSE /\ callerPc' = [callerPc EXCEPT ![c] = "init"]
            /\ callerGot' = [callerGot EXCEPT ![c] = [mgr |-> instance, err |-> "none"]]
            /\ UNCHANGED <<built, instance, instanceClosed>>
    /\ UNCHANGED <<onceDone, closedMgrs, analyzed>>
    /\ UNCHANGED notManagerVars

\* return mgr.Init(ctx): the bring-up of a closed manager fails
ManagerInit(c, up) ==
    /\ callerPc[c] = "init"
    /\ callerPc' = [callerPc EXCEPT ![c] = "returned"]
    /\ callerGot' = [callerGot EXCEPT ![c].err =
                        IF up /\ callerGot[c].mgr \notin closedMgrs THEN "nil"
                        ELSE "init failed"]
    /\ UNCHANGED <<instance, instanceClosed, onceDone, built, closedMgrs, analyzed>>
    /\ UNCHANGED notManagerVars

\* Close()
Close(c) ==
    /\ callerPc[c] \in {"idle", "returned"}
    /\ IF instance /= 0
       THEN closedMgrs' = closedMgrs \cup {instance} /\ instanceClosed' = TRUE
       ELSE UNCHANGED <<closedMgrs, instanceClosed>>
    /\ UNCHANGED <<instance, onceDone, built, analyzed, callerPc, callerGot>>
    /\ UNCHANGED notManagerVars

\* Analyze(text) on the default instance: it needs the client of a manager
\* that is not closed
AnalyzeDefault(c) ==
    /\ callerPc[c] \in {"idle", "returned"}
    /\ instance /= 0 /\ instance \notin closedMgrs
    /\ analyzed' = analyzed \cup {instance}
    /\ UNCHANGED <<instance, instanceClosed, onceDone, built, closedMgrs, callerPc,
                   callerGot>>
    /\ UNCHANGED notManagerVars

NextManager ==
    \/ \E c \in Callers, constructed \in BOOLEAN : getOrCreateDefaultManager(c, constructed)
    \/ \E c \in Callers, up \in BOOLEAN : ManagerInit(c, up)
    \/ \E c \in Callers : Close(c)
    \/ \E c \in Callers : AnalyzeDefault(c)

SpecManager == InitManagerVars /\ [][NextManager]_vars

(***************************************************************************)
(* Analyze (ichiran.go): the container check, the exec unit, the scan of   *)
(* its output (the step ExtractJSON above) and the exit code. With exit    *)
(* code 0 Analyze goes on to the decoding: ExecInspect leaves the decoded  *)
(* output at decodePc = "parse", the states SpecDecode starts from.        *)
(***************************************************************************)
MaxExitCode == 2

\* what ContainerInspect answers for a container in a given state
ContainerInspect(state) ==
    [done |-> TRUE, err |-> state = "gone", running |-> state = "running"]

\* the two tests Analyze makes on the answer before it creates the exec unit
ContainerCheckErrOnly(info) ==
    IF info.err THEN "failed to inspect container" ELSE "nil"
ContainerCheck(info) ==
    IF info.err THEN "failed to inspect container"
    ELSE IF ~info.running THEN "container is not running"
    ELSE "nil"

\* what the command can write to the attached stream
ExecOutputs ==
    << <<>>,
       <<"a", "a">>,
       <<"[", "1", "]">>,
       <<"a", "a", NL, "[", "1", "]">>,
       <<"{", "}">>,
       <<"a">> \o CmdNotFound >>

\* decoder.Decode on the JSON texts of ExecOutputs
DecodeBytes(bytes) ==
    IF bytes = <<"[", "1", "]">> THEN JArr(<<JNum(1)>>)
    ELSE IF bytes = <<"{", "}">> THEN JObj(<<>>)
    ELSE JInvalid

ErrorResult(msg) == [err |-> msg, tokens |-> <<>>]

InitAnalyze ==
    /\ container \in {"running", "stopped", "gone"}
    /\ execPc = "start"
    /\ execs = 0
    /\ exitCode = 0
    /\ inspected = [done |-> FALSE, err |-> FALSE, running |-> FALSE]
    /\ hitTeardown = FALSE
    /\ rawOutput = <<>>
    /\ extractPc = "idle"
    /\ extractResult = [err |-> "none", bytes |-> <<>>]
    /\ output = JNull
    /\ loggerFatalExits \in BOOLEAN
    /\ loopVarShared = FALSE
    /\ decodePc = "idle"
    /\ parseResult = [err |-> "none", tokens |-> <<>>]
    /\ analyzeResult = [err |-> "none", tokens |-> <<>>]
    /\ TranslitIdle
    /\ ReadyIdle
    /\ ManagerIdle
    /\ CallIdle

\* the container is stopped and removed while Analyze runs
Teardown ==
    /\ container = "running"
    /\ execPc \in {"start", "checked", "created", "attached", "extracted"}
    /\ container' = "gone"
    /\ UNCHANGED <<execPc, execs, exitCode, inspected, hitTeardown>>
    /\ UNCHANGED <<extractVars, decodeVars, translitVars, readyVars, managerVars, callVars>>

\* Analyze up to the container check: entry is "nil instance", "no client"
\* or "inspect"
InspectContainer(entry) ==
    /\ execPc = "start"
    /\ IF entry = "nil instance"
       THEN /\ analyzeResult' = ErrorResult("Docker manager not initialized")
            /\ execPc' = "returned"
            /\ UNCHANGED inspected
       ELSE IF entry = "no client"
       THEN /\ analyzeResult' = ErrorResult("failed to get Docker client")
            /\ execPc' = "returned"
            /\ UNCHANGED inspected
       ELSE /\ inspected' = ContainerInspect(container)
            /\ IF ContainerCheck(ContainerInspect(container)) = "nil"
               THEN execPc' = "checked" /\ UNCHANGED analyzeResult
               ELSE /\ analyzeResult' =
                          ErrorResult(ContainerCheck(ContainerInspect(container)))
                    /\ execPc' = "returned"
    /\ UNCHANGED <<container, execs, exitCode, hitTeardown>>
    /\ UNCHANGED <<output, loggerFatalExits, loopVarShared, decodePc, parseResult>>
    /\ UNCHANGED <<extractVars, translitVars, readyVars, managerVars, callVars>>

\* client.ContainerExecCreate
ExecCreate ==
    /\ execPc = "checked"
    /\ IF container = "running"
       THEN /\ execs' = execs + 1
            /\ execPc' = "created"
            /\ UNCHANGED <<analyzeResult, hitTeardown>>
       ELSE /\ analyzeResult' = ErrorResult("failed to create exec")
            /\ execPc' = "returned"
            /\ hitTeardown' = TRUE
            /\ UNCHANGED execs
    /\ UNCHANGED <<container, exitCode, inspected>>
    /\ UNCHANGED <<output, loggerFatalExits, loopVarShared, decodePc, parseResult>>
    /\ UNCHANGED <<extractVars, translitVars, readyVars, managerVars, callVars>>

\* client.ContainerExecAttach: the command runs, writes its output and ends
\* with an exit code
ExecAttach(k, code) ==
    /\ execPc = "created"
    /\ IF container = "running"
       THEN /\ rawOutput' = ExecOutputs[k]
            /\ exitCode' = code
            /\ extractPc' = "start"
            /\ execPc' = "attached"
            /\ UNCHANGED <<analyzeResult, hitTeardown>>
       ELSE /\ analyzeResult' = ErrorResult("failed to attach to exec")
            /\ execPc' = "returned"
            /\ hitTeardown' = TRUE
            /\ UNCHANGED <<rawOutput, exitCode, extractPc>>
    /\ UNCHANGED <<container, execs, inspected, extractResult>>
    /\ UNCHANGED <<output, loggerFatalExits, loopVarShared, decodePc, parseResult>>
    /\ UNCHANGED <<translitVars, readyVars, managerVars, callVars>>

\* the test on the error of extractJSONFromDockerOutput
ExtractChecked ==
    /\ execPc = "attached" /\ extractPc = "done"
    /\ IF extractResult.err /= "nil"
       THEN /\ analyzeResult' = ErrorResult("failed to read exec output")
            /\ execPc' = "returned"
       ELSE execPc' = "extracted" /\ UNCHANGED analyzeResult
    /\ UNCHANGED <<container, execs, exitCode, inspected, hitTeardown>>
    /\ UNCHANGED <<output, loggerFatalExits, loopVarShared, decodePc, parseResult>>
    /\ UNCHANGED <<extractVars, translitVars, readyVars, managerVars, callVars>>

\* client.ContainerExecInspect and the switch on inspect.ExitCode
ExecInspect ==
    /\ execPc = "extracted"
    /\ IF container /= "running"
       THEN /\ analyzeResult' = ErrorResult("failed to inspect exec")
            /\ execPc' = "returned"
            /\ hitTeardown' = TRUE
            /\ UNCHANGED <<output, decodePc>>
       ELSE IF exitCode /= 0
       THEN /\ analyzeResult' = ErrorResult("command failed with exit code")
            /\ execPc' = "returned"
            /\ UNCHANGED <<output, decodePc, hitTeardown>>
       ELSE /\ output' = DecodeBytes(extractResult.bytes)
            /\ decodePc' = "parse"
            /\ execPc' = "parsing"
            /\ UNCHANGED <<analyzeResult, hitTeardown>>
    /\ UNCHANGED <<container, execs, exitCode, inspected>>
    /\ UNCHANGED <<loggerFatalExits, loopVarShared, parseResult>>
    /\ UNCHANGED <<extractVars, translitVars, readyVars, managerVars, callVars>>

NextAnalyze ==
    \/ Teardown
    \/ \E entry \in {"nil instance", "no client", "inspect"} : InspectContainer(entry)
    \/ ExecCreate
    \/ \E k \in 1..Len(ExecOutputs), code \in 0..MaxExitCode : ExecAttach(k, code)
    \/ ExtractJSON
    \/ ExtractChecked
    \/ ExecInspect

SpecAnalyze == InitAnalyze /\ [][NextAnalyze]_vars

(***************************************************************************)
(* safe (ichiran.go): shellescape.Quote, then strings.TrimPrefix.          *)
(***************************************************************************)
MaxText == 3

APOS == "'"

Digits == {"0", "1", "2", "3", "4", "5", "6", "7", "8", "9"}

\* the characters shellescape leaves alone: the complement of [^\w@%+=:,./-]
ShellSafeChars ==
    {Lowers[i] : i \in 1..Len(Lowers)} \cup {Uppers[i] : i \in 1..Len(Uppers)}
        \cup Digits \cup {"_", "@", "%", "+", "=", ":", ",", ".", "/", "-"}

\* shellescape.Quote
Quote(s) ==
    IF Len(s) = 0 THEN <<APOS, APOS>>
    ELSE IF \E i \in 1..Len(s) : s[i] \notin ShellSafeChars
    THEN <<APOS>> \o ReplaceAll(s, APOS, <<APOS, Q, APOS, Q, APOS>>) \o <<APOS>>
    ELSE s

\* strings.TrimPrefix
TrimPrefix(s, prefix) ==
    IF HasPrefix(s, prefix) THEN SubSeq(s, Len(prefix) + 1, Len(s)) ELSE s

safe(s) == TrimPrefix(Quote(s), <<"-">>)

\* the characters of the texts: a hyphen, a letter, a space, an apostrophe, a kana
TextChars == {"-", "h", SP, APOS, cI}

InitSafe ==
    /\ \E n \in 0..MaxText : text \in [1..n -> TextChars]
    /\ safePc = "start"
    /\ safeArg = <<>>
    /\ MorphIdle
    /\ ReadIdle
    /\ ExtractIdle
    /\ DecodeIdle
    /\ TranslitIdle
    /\ ReadyIdle
    /\ ManagerIdle
    /\ ExecIdle

\* safe(text), as called by Analyze when it builds the command
Safe ==
    /\ safePc = "start"
    /\ safeArg' = safe(text)
    /\ safePc' = "done"
    /\ UNCHANGED <<text, morphVars, readVars, pipelineVars>>

NextSafe == Safe

SpecSafe == InitSafe /\ [][NextSafe]_vars

(***************************************************************************)
(* JSONTokens.ToMorphemes (ichiran.go).                                    *)
(***************************************************************************)
MaxMorphs == 3

\* the copy made of a component: its fields, with IsLexical set
Morpheme(component) == [component EXCEPT !.IsLexical = TRUE]

\* a variant that goes on into the components of a component
RECURSIVE ToMorphemesDeep(_)
ToMorphemesDeep(toks) ==
    IF toks = <<>> THEN <<>>
    ELSE LET token == Head(toks)
         IN (IF Len(token.Components) > 0
             THEN ToMorphemesDeep([j \in 1..Len(token.Components) |->
                                      Morpheme(token.Components[j])])
             ELSE <<token>>) \o ToMorphemesDeep(Tail(toks))

\* the loop over the tokens: the components of a token that has some, else
\* the token itself
RECURSIVE ToMorphemes(_)
ToMorphemes(toks) ==
    IF toks = <<>> THEN <<>>
    ELSE LET token == Head(toks)
         IN (IF Len(token.Components) > 0
             THEN [j \in 1..Len(token.Components) |-> Morpheme(token.Components[j])]
             ELSE <<token>>) \o ToMorphemes(Tail(toks))

Plain(surface, isLexical) ==
    [ZeroToken EXCEPT !.Surface = surface, !.IsLexical = isLexical]
Compound(surface, components) ==
    [ZeroToken EXCEPT !.Surface = surface, !.IsLexical = TRUE, !.Components = components]

mWatashi == Plain(sWatashi, FALSE)
mGakusei == Plain(sGakusei, FALSE)
mCompound == Compound(sWatashi \o sGakusei, <<mWatashi, mGakusei>>)

\* plain tokens, a compound of two, a compound of one, and a compound whose
\* first component has components of its own
MorphCandidates == <<
    Plain(sWatashi, TRUE),
    Plain(sPunct, FALSE),
    mCompound,
    Compound(sGakusei, <<mGakusei>>),
    Compound(sWatashi \o sGakusei \o sWatashi, <<mCompound, mWatashi>>) >>

InitMorph ==
    /\ \E n \in 0..MaxMorphs :
         \E pick \in [1..n -> 1..Len(MorphCandidates)] :
            receiver = [i \in 1..n |-> MorphCandidates[pick[i]]]
    /\ morphemes = [called |-> FALSE, tokens |-> <<>>]
    /\ SafeIdle
    /\ ReadIdle
    /\ ExtractIdle
    /\ DecodeIdle
    /\ TranslitIdle
    /\ ReadyIdle
    /\ ManagerIdle
    /\ ExecIdle

\* tokens.ToMorphemes()
Morphemes ==
    /\ ~morphemes.called
    /\ morphemes' = [called |-> TRUE, tokens |-> ToMorphemes(receiver)]
    /\ UNCHANGED <<receiver, safeVars, readVars, pipelineVars>>

NextMorph == Morphemes

SpecMorph == InitMorph /\ [][NextMorph]_vars

(***************************************************************************)
(* Analyze from the attached stream on (ichiran.go): readDockerOutput      *)
(* reads frames of an 8-byte header and a payload from resp.Reader, a      *)
(* plain io.Reader, while the context of the request runs towards its      *)
(* deadline. The far end of the stream is the command in the container.    *)
(***************************************************************************)
MaxFrames == 2
MaxPayload == 2

\* the state after ContainerExecAttach returned the stream
InitRead ==
    /\ frames = <<>>
    /\ sent = 0
    /\ peer = "open"
    /\ deadline = "pending"
    /\ readPc = "reading"
    /\ readErr = "none"
    /\ streamOpen = TRUE
    /\ got = 0
    /\ SafeIdle
    /\ MorphIdle
    /\ ExtractIdle
    /\ DecodeIdle
    /\ TranslitIdle
    /\ ReadyIdle
    /\ ManagerIdle
    /\ ExecIdle

\* the command writes a frame with a payload of payloadSize bytes
PeerWrite(payloadSize) ==
    /\ peer = "open" /\ streamOpen /\ sent < MaxFrames
    /\ frames' = Append(frames, payloadSize)
    /\ sent' = sent + 1
    /\ UNCHANGED <<peer, deadline, readPc, readErr, streamOpen, got>>
    /\ UNCHANGED <<safeVars, morphVars, pipelineVars>>

\* the command ends and the stream is closed after its last frame
PeerClose ==
    /\ peer = "open" /\ streamOpen
    /\ peer' = "closed"
    /\ UNCHANGED <<frames, sent, deadline, readPc, readErr, streamOpen, got>>
    /\ UNCHANGED <<safeVars, morphVars, pipelineVars>>

\* the command hangs: it writes no more and does not end, and the stream
\* stays open
PeerStall ==
    /\ peer = "open" /\ streamOpen
    /\ peer' = "stalled"
    /\ UNCHANGED <<frames, sent, deadline, readPc, readErr, streamOpen, got>>
    /\ UNCHANGED <<safeVars, morphVars, pipelineVars>>

\* the connection breaks
PeerReset ==
    /\ peer = "open" /\ streamOpen
    /\ peer' = "reset"
    /\ UNCHANGED <<frames, sent, deadline, readPc, readErr, streamOpen, got>>
    /\ UNCHANGED <<safeVars, morphVars, pipelineVars>>

\* QueryTimeout has passed: ctx.Done() is closed. The deferred cancel() of a
\* call that returned releases the timer.
Expire ==
    /\ deadline = "pending" /\ readPc /= "returned"
    /\ deadline' = "expired"
    /\ UNCHANGED <<frames, sent, peer, readPc, readErr, streamOpen, got>>
    /\ UNCHANGED <<safeVars, morphVars, pipelineVars>>

\* one turn of the loop of readDockerOutput on a frame that has arrived:
\* io.ReadFull of the header, then of the payload unless its size is 0
ReadFrame ==
    /\ readPc = "reading" /\ frames /= <<>>
    /\ frames' = Tail(frames)
    /\ got' = got + Head(frames)
    /\ UNCHANGED <<sent, peer, deadline, readPc, readErr, streamOpen>>
    /\ UNCHANGED <<safeVars, morphVars, pipelineVars>>

\* io.ReadFull returns io.EOF: the loop ends, the line scan runs on the bytes
\* read and Analyze goes on to ContainerExecInspect or returns the scan's
\* error; the deferred resp.Close() releases the stream on return
ReadEOF(found) ==
    /\ readPc = "reading" /\ frames = <<>> /\ peer = "closed"
    /\ IF found
       THEN readPc' = "inspect" /\ UNCHANGED <<readErr, streamOpen>>
       ELSE /\ readPc' = "returned"
            /\ readErr' = "failed to read exec output"
            /\ streamOpen' = FALSE
    /\ UNCHANGED <<frames, sent, peer, deadline, got>>
    /\ UNCHANGED <<safeVars, morphVars, pipelineVars>>

\* io.ReadFull returns another error: "failed to read header"
ReadFails ==
    /\ readPc = "reading" /\ frames = <<>> /\ peer = "reset"
    /\ readPc' = "returned"
    /\ readErr' = "failed to read exec output"
    /\ streamOpen' = FALSE
    /\ UNCHANGED <<frames, sent, peer, deadline, got>>
    /\ UNCHANGED <<safeVars, morphVars, pipelineVars>>

\* client.ContainerExecInspect(ctx, exec.ID): a call of the client with a
\* context past its deadline returns the context's error
InspectExec ==
    /\ readPc = "inspect"
    /\ readPc' = "returned"
    /\ readErr' = IF deadline = "expired" THEN "failed to inspect exec" ELSE "nil"
    /\ streamOpen' = FALSE
    /\ UNCHANGED <<frames, sent, peer, deadline, got>>
    /\ UNCHANGED <<safeVars, morphVars, pipelineVars>>

\* the steps of the goroutine that runs Analyze
ReaderStep ==
    \/ ReadFrame
    \/ \E found \in BOOLEAN : ReadEOF(found)
    \/ ReadFails
    \/ InspectExec

NextRead ==
    \/ \E payloadSize \in 0..MaxPayload : PeerWrite(payloadSize)
    \/ PeerClose
    \/ PeerStall
    \/ PeerReset
    \/ Expire
    \/ ReaderStep

SpecRead == InitRead /\ [][NextRead]_vars

\* The goroutine of Analyze takes a step whenever one is possible and the
\* timer of the context fires; nothing makes the command write or end.
SpecReadFair == SpecRead /\ WF_vars(ReaderStep) /\ WF_vars(Expire)

(***************************************************************************)
(* Claims about extractJSONFromDockerOutput (SpecExtract).                 *)
(***************************************************************************)
\* the lines of the demultiplexed output, each without its surrounding whitespace
OutputLines == LET ls == ReadLines(rawOutput, <<>>) IN [i \in 1..Len(ls) |-> TrimSpace(ls[i])]

\* a line starting with [ or { that parses as JSON
IsRawJSONLine(l) == l /= <<>> /\ l[1] \in {"[", "{"} /\ ValidJSON(l)

\* a fully quoted JSON string literal whose unescaped content parses as JSON
IsQuotedJSONLine(l) == UnmarshalString(l).ok /\ ValidJSON(UnmarshalString(l).s)

IsJSONLine(l) == IsRawJSONLine(l) \/ IsQuotedJSONLine(l)

JSONOfLine(l) == IF IsQuotedJSONLine(l) THEN UnmarshalString(l).s ELSE l

JSONLineIndexes == {i \in 1..Len(OutputLines) : IsJSONLine(OutputLines[i])}

TheJSONLine == OutputLines[CHOOSE i \in JSONLineIndexes : TRUE]

\* C1 as stated: with exactly one JSON line among diagnostic lines of any content,
\* the function returns that line's JSON and nothing else.
C1_AnyDiagnostics ==
    (extractPc = "done" /\ Cardinality(JSONLineIndexes) = 1)
        => extractResult = [err |-> "nil", bytes |-> JSONOfLine(TheJSONLine)]

\* C25 as stated: when no line of the demultiplexed output is a JSON line,
\* raw or quoted, the function returns the 'no valid JSON line found' error
\* and no bytes, and nothing else.
C25_NoJSONFoundOnly ==
    (extractPc = "done" /\ JSONLineIndexes = {})
        => extractResult = [err |-> "noJSONFound", bytes |-> <<>>]

(***************************************************************************)
(* Claims about parseOutput and extractTokens (SpecDecode).                *)
(***************************************************************************)
ParseReturned == decodePc \in {"parsed", "returned"}

OutputItems == IF output.k = "arr" THEN output.a ELSE <<>>

\* the tokens one top-level element stands for: the token of a bare string
\* whose escapes are well formed, the decodable entries of a group
ItemTokens(item) ==
    IF item.k = "str"
    THEN IF unescapeUnicodeString(item.s).ok
         THEN <<[ZeroToken EXCEPT !.Surface = unescapeUnicodeString(item.s).s]>>
         ELSE <<>>
    ELSE IF item.k = "arr" /\ ~extractTokens(item.a).panic
    THEN [i \in 1..Len(extractTokens(item.a).tokens) |->
             [extractTokens(item.a).tokens[i] EXCEPT !.IsLexical = TRUE]]
    ELSE <<>>

ItemOrigins(item) ==
    [i \in 1..Len(ItemTokens(item)) |-> IF item.k = "str" THEN "string" ELSE "group"]

ExpectedTokens == Concat([i \in 1..Len(OutputItems) |-> ItemTokens(OutputItems[i])])

ExpectedOrigins == Concat([i \in 1..Len(OutputItems) |-> ItemOrigins(OutputItems[i])])

Surfaces(ts) == [i \in 1..Len(ts) |-> ts[i].Surface]

\* C2: whatever elements of a valid top-level array are wrongly shaped,
\* parseOutput returns without error and without panic, and carries one token
\* for every well-formed entry.
C2_PerEntryFailuresNonFatal ==
    (decodePc /= "parse" /\ output.k = "arr")
        => /\ ParseReturned
           /\ parseResult.err = "nil"
           /\ Len(parseResult.tokens) = Len(ExpectedTokens)

\* C3: when the bytes do not decode as a top-level array, parseOutput returns
\* the 'failed to decode JSON' error and Analyze returns an error and no tokens.
C3_DecodeFailureIsReturned ==
    (decodePc /= "parse" /\ DecodeFails(output))
        => /\ ParseReturned
           /\ parseResult.err = "failed to decode JSON"
           /\ decodePc = "returned" => /\ analyzeResult.err = "failed to parse output"
                                       /\ analyzeResult.tokens = <<>>

\* C4: a returned token that wraps alternatives has at least one, and its
\* surface, isLexical, reading, kana, romanized and score equal those of the
\* first surviving alternative.
C4_CoreEqualsFirstAlternative ==
    (ParseReturned /\ parseResult.err = "nil")
        => \A i \in 1..Len(parseResult.tokens) :
              LET t == parseResult.tokens[i]
              IN Len(t.Alternative) >= 1 => extractCore(t) = extractCore(t.Alternative[1])

\* C5: every token produced while decoding a group, the alternatives it
\* holds included, has IsLexical = TRUE, and every token of a bare string has
\* IsLexical = FALSE.
C5_IsLexicalFollowsOrigin ==
    (ParseReturned /\ parseResult.err = "nil" /\ Len(parseResult.tokens) = Len(ExpectedOrigins))
        => \A i \in 1..Len(parseResult.tokens) :
              LET t == parseResult.tokens[i]
              IN IF ExpectedOrigins[i] = "group"
                 THEN t.IsLexical /\ \A j \in 1..Len(t.Alternative) : t.Alternative[j].IsLexical
                 ELSE ~t.IsLexical

ComponentSurfaces(t) == Concat([i \in 1..Len(t.Components) |-> t.Components[i].Surface])

\* C24 as stated: in every token sequence Analyze returns, a token that has
\* components has a surface equal to its components' surfaces joined in order.
C24_ComponentsSpellSurface ==
    (decodePc = "returned" /\ analyzeResult.err = "nil") =>
        \A i \in 1..Len(analyzeResult.tokens) :
            LET t == analyzeResult.tokens[i]
            IN t.Components /= <<>> => ComponentSurfaces(t) = t.Surface

(***************************************************************************)
(* Claims about selectiveTranslit (SpecTranslit).                          *)
(***************************************************************************)
Called(t) == translit[t].called

\* the tokens whose kanji readings are processed one by one
HasReadings(token) ==
    token.IsLexical /\ ContainsKanjis(token.Surface) /\ Len(token.KanjiReadings) > 0

\* the kanji readings of the input: <<j, i>> is reading i of token j
ReadingSlots ==
    {s \in (1..Len(tokens)) \X (1..MaxTokens) :
        HasReadings(tokens[s[1]]) /\ s[2] <= Len(tokens[s[1]].KanjiReadings)}

ReadingAt(s) == tokens[s[1]].KanjiReadings[s[2]]

DecisionCount(token) == IF HasReadings(token) THEN Len(token.KanjiReadings) ELSE 1

RECURSIVE DecisionOffset(_)
DecisionOffset(j) ==
    IF j = 1 THEN 0 ELSE DecisionOffset(j - 1) + DecisionCount(tokens[j - 1])

\* the decision the call with threshold t made for a kanji reading
DecisionOf(t, s) == translit[t].Tokens[DecisionOffset(s[1]) + s[2]]

PreservedCount(t) ==
    Cardinality({n \in 1..Len(translit[t].Tokens) :
                    translit[t].Tokens[n].Status = StatusPreserved})

IsSingleKanji(kanji) == Len(kanji) = 1 /\ kanji[1] \in HanChars

\* C7 as stated: at no threshold does a reading that is not linked, or that
\* carries a gemination mark, get the status Preserved, a reading of one
\* single kanji included.
C7_RegularityGate ==
    \A t \in Thresholds : Called(t) =>
        \A s \in ReadingSlots :
            ~isRegularReading(ReadingAt(s)) => DecisionOf(t, s).Status /= StatusPreserved

\* C8: for thresholds t1 <= t2 the call with t2 returns at least as many
\* Preserved decisions as the call with t1 on the same tokens.
C8_Monotone ==
    \A t1, t2 \in Thresholds :
        (Called(t1) /\ Called(t2) /\ t1 <= t2) => PreservedCount(t1) <= PreservedCount(t2)

C8_Witness ==
    \E t1, t2 \in Thresholds :
        /\ Called(t1) /\ Called(t2) /\ t1 < t2
        /\ 0 < PreservedCount(t1)
        /\ PreservedCount(t1) < PreservedCount(t2)

\* C9: the call with threshold 0 gives no decision the status Preserved and
\* replaces every kanji reading by its kana reading.
C9_ThresholdZero ==
    Called(0) =>
        /\ PreservedCount(0) = 0
        /\ \A s \in ReadingSlots : DecisionOf(0, s).Result = ReadingAt(s).Reading

C9_Witness ==
    /\ Called(0) /\ Called(1)
    /\ \E s \in ReadingSlots :
          /\ ReadingAt(s).Kanji = <<cIchi>>
          /\ DecisionOf(1, s).Status = StatusPreserved
          /\ DecisionOf(0, s).Result = ReadingAt(s).Reading

IsNotKanjiToken(token) ==
    ~token.IsLexical \/ \A i \in 1..Len(token.Surface) : token.Surface[i] \notin HanChars

\* a lexical token with kanji whose list of kanji readings is empty
IsUnreadToken(token) == ~IsNotKanjiToken(token) /\ token.KanjiReadings = <<>>

\* the decisions of the call with threshold t that belong to token j
DecisionsOfToken(t, j) ==
    SubSeq(translit[t].Tokens, DecisionOffset(j) + 1,
           DecisionOffset(j) + DecisionCount(tokens[j]))

\* what token j contributes to the text, read from its decisions
ContributionOf(t, j) ==
    LET ds == DecisionsOfToken(t, j)
        joined == Concat([i \in 1..Len(ds) |-> ds[i].Result])
    IN IF IsNotKanjiToken(tokens[j]) \/ IsUnreadToken(tokens[j]) THEN tokens[j].Surface
       ELSE IF joined = <<>> THEN tokens[j].Kana ELSE joined

TotalDecisions == IF tokens = <<>> THEN 0
                  ELSE DecisionOffset(Len(tokens)) + DecisionCount(tokens[Len(tokens)])

\* C11: a token that is not lexical or has no kanji contributes its surface
\* and exactly one decision (surface, surface, NotKanji); a lexical token with
\* kanji and no kanji readings contributes its surface and exactly one
\* decision (surface, surface, Unmappable); the text holds each such surface
\* at the token's place.
C11_PassThrough ==
    \A t \in Thresholds : Called(t) =>
        /\ Len(translit[t].Tokens) = TotalDecisions
        /\ translit[t].Text = Concat([j \in 1..Len(tokens) |-> ContributionOf(t, j)])
        /\ \A j \in 1..Len(tokens) :
              /\ IsNotKanjiToken(tokens[j]) =>
                    DecisionsOfToken(t, j) =
                        <<[Original |-> tokens[j].Surface, Result |-> tokens[j].Surface,
                           Status |-> StatusNotKanji]>>
              /\ IsUnreadToken(tokens[j]) =>
                    DecisionsOfToken(t, j) =
                        <<[Original |-> tokens[j].Surface, Result |-> tokens[j].Surface,
                           Status |-> StatusUnmappable]>>

C11_Witness ==
    \E t \in Thresholds :
        /\ Called(t) /\ Len(tokens) = 2
        /\ IsNotKanjiToken(tokens[1]) /\ tokens[1].IsLexical
        /\ IsUnreadToken(tokens[2])
        /\ translit[t].Text = tokens[1].Surface \o tokens[2].Surface
        /\ translit[t].Tokens[1].Status = StatusNotKanji
        /\ translit[t].Tokens[2].Status = StatusUnmappable

\* the 1-based rank of a character is within the threshold
RankWithin(c, t) ==
    \E k \in 1..Len(kanjiFreqSlice) : kanjiFreqSlice[k] = <<c>> /\ k <= t

\* C12: a reading whose kanji field holds several characters is kept whole,
\* Preserved, exactly when every character is in the frequency table with a
\* rank within the threshold, and is otherwise replaced by its kana reading,
\* Infrequent; whether the reading is regular plays no part.
C12_CompoundAllOrNothing ==
    \A t \in Thresholds : Called(t) =>
        \A s \in ReadingSlots :
            LET r == ReadingAt(s)
            IN Len(r.Kanji) >= 2 =>
                 DecisionOf(t, s) =
                    IF \A i \in 1..Len(r.Kanji) : RankWithin(r.Kanji[i], t)
                    THEN [Original |-> r.Kanji, Result |-> r.Kanji,
                          Status |-> StatusPreserved]
                    ELSE [Original |-> r.Kanji, Result |-> r.Reading,
                          Status |-> StatusInfrequent]

C12_Witness ==
    \E t1, t2 \in Thresholds : \E s \in ReadingSlots :
        /\ Called(t1) /\ Called(t2)
        /\ ReadingAt(s) = rNiSanUnlinked
        /\ DecisionOf(t1, s).Status = StatusInfrequent
        /\ DecisionOf(t1, s).Result = rNiSanUnlinked.Reading
        /\ DecisionOf(t2, s).Status = StatusPreserved
        /\ DecisionOf(t2, s).Result = <<cNi, cSan>>

\* the Result fields of decisions ds, joined in order
JoinedResults(ds) == Concat([i \in 1..Len(ds) |-> ds[i].Result])

\* C26: in every audit list returned by selectiveTranslit, a decision whose
\* status is Preserved or NotKanji has Result equal to Original.
C26_KeptMeansUnchanged ==
    \A t \in Thresholds : Called(t) =>
        \A n \in 1..Len(translit[t].Tokens) :
            LET d == translit[t].Tokens[n]
            IN d.Status \in {StatusPreserved, StatusNotKanji} => d.Result = d.Original

\* a call whose audit list holds a Preserved reading of two kanji and a
\* Preserved reading of one kanji, each with Result equal to Original
C26_Witness ==
    \E t \in Thresholds :
        /\ Called(t)
        /\ \E n \in 1..Len(translit[t].Tokens) :
              /\ translit[t].Tokens[n].Status = StatusPreserved
              /\ Len(translit[t].Tokens[n].Original) = 2
        /\ \E n \in 1..Len(translit[t].Tokens) :
              /\ translit[t].Tokens[n].Status = StatusPreserved
              /\ Len(translit[t].Tokens[n].Original) = 1
              /\ translit[t].Tokens[n].Result = translit[t].Tokens[n].Original

\* C28 as stated: the text is the Result fields of the whole audit list,
\* joined in order without separators.
C28_TextIsJoinedResults ==
    \A t \in Thresholds : Called(t) =>
        translit[t].Text = JoinedResults(translit[t].Tokens)

\* token j has kanji readings and all of them gave an empty result
FallsBackToKana(t, j) ==
    HasReadings(tokens[j]) /\ JoinedResults(DecisionsOfToken(t, j)) = <<>>

\* C28 amended: the text is the join, token by token, of the Result fields of
\* the token's decisions, except that a token whose kanji readings all gave an
\* empty result stands in the text as its Kana field, which no decision holds;
\* without such a token the text is the join of the whole audit list.
C28_TextIsJoinedResultsOrKana ==
    \A t \in Thresholds : Called(t) =>
        /\ translit[t].Text =
              Concat([j \in 1..Len(tokens) |->
                         IF FallsBackToKana(t, j) THEN tokens[j].Kana
                         ELSE JoinedResults(DecisionsOfToken(t, j))])
        /\ (\A j \in 1..Len(tokens) : ~FallsBackToKana(t, j)) =>
              translit[t].Text = JoinedResults(translit[t].Tokens)

\* two tokens, the second rewritten to kana, no fallback: the text is the
\* join of the audit list and differs from the surfaces
C28_Witness ==
    \E t \in Thresholds :
        /\ Called(t) /\ Len(tokens) = 2
        /\ \A j \in 1..2 : HasReadings(tokens[j]) /\ ~FallsBackToKana(t, j)
        /\ Len(translit[t].Tokens) = 3
        /\ translit[t].Tokens[1].Status = StatusPreserved
        /\ translit[t].Tokens[3].Status = StatusIrregular
        /\ translit[t].Text = JoinedResults(translit[t].Tokens)
        /\ translit[t].Text /= tokens[1].Surface \o tokens[2].Surface

\* every decision of token j in the call with threshold t is Preserved
AllPreserved(t, j) ==
    \A n \in 1..Len(DecisionsOfToken(t, j)) :
        DecisionsOfToken(t, j)[n].Status = StatusPreserved

\* C30: when every token of the input is a lexical token with kanji whose
\* kanji readings are all decided Preserved, the text is the tokens' surfaces
\* joined: each such token contributes its surface, kana included.
C30_PreservedKeepsSurface ==
    \A t \in Thresholds : Called(t) =>
        ((\A j \in 1..Len(tokens) : HasReadings(tokens[j]) /\ AllPreserved(t, j))
            => translit[t].Text = Concat([j \in 1..Len(tokens) |-> tokens[j].Surface]))

(***************************************************************************)
(* Claims about Docker.Initialize and the sentinel handler (SpecReady).    *)
(***************************************************************************)
\* the latest call of Initialize started the stack and has returned
WaitReturned == waited /\ initPc = "idle" /\ panicAt = "none"

\* no start operation has reported an error so far
NoStartError == \A i \in Runs : upGo[i] \in {"none", "running", "returned"}

\* C13 as stated: a message holding the sentinel that comes after the wait
\* was resolved, after Initialize closed its channels included, is ignored:
\* Log does not panic on it.
C13_LaterSentinelIgnored == panicAt /= "Log"

\* C14 as stated: in a call of Initialize during which no sentinel is logged
\* and no start operation reports an error, the wait ends by the timeout
\* only: the call neither panics nor returns anything but the timeout error.
C14_TimeoutOnly ==
    (waited /\ ~sentinelLogged /\ NoStartError)
        => /\ panicAt = "none"
           /\ initPc \in {"started", "select", "idle"}
           /\ initPc = "idle" => initErr = "timeout waiting for ichiran to initialize"

\* C15 as stated: a call of Initialize that went through the wait returns
\* success only when the sentinel fired (and the status then read is RUNNING).
C15_SuccessNeedsSentinel ==
    (WaitReturned /\ initErr = "nil") => received = "sentinel"

\* C16 as stated: the goroutine around the start operation never sends on a
\* closed channel and is never left blocked on its send once Initialize has
\* returned.
C16_StartGoroutineEnds ==
    \A i \in Runs :
        /\ upGo[i] /= "panicked"
        /\ initPc = "idle" => upGo[i] /= "sending"

\* C27 as stated: when the sentinel line was logged at any moment after the
\* start operation of the current call was issued, the wait of that call does
\* not end by the timeout: no step takes the timeout case once the sentinel
\* has been logged in the call.
C27_ReadyIsLevelTriggered ==
    [][(received /= "timeout" /\ received' = "timeout") => ~sentinelLogged]_vars

(***************************************************************************)
(* Claims about the default manager (SpecOnce, SpecManager).               *)
(***************************************************************************)
ConstructionErrors == {"construction failed", "failed to create default manager"}

\* C17 as stated: among concurrent first calls of the initialisation
\* functions, at most one manager is constructed and every caller that has
\* returned holds that manager or the construction error; no caller is left
\* with neither.
C17_OneManagerForAll ==
    closedMgrs = {} =>
        /\ built <= 1
        /\ \A c \in Callers :
              /\ callerPc[c] /= "panicked"
              /\ callerPc[c] = "returned" =>
                    \/ callerGot[c].mgr = 0 /\ callerGot[c].err \in ConstructionErrors
                    \/ callerGot[c].mgr /= 0 /\ callerGot[c].mgr = instance

\* C18: a call of getOrCreateDefaultManager that hands a manager to
\* InitWithContext hands the open default instance when there is one, and
\* otherwise a manager constructed by this call, never a closed one, and
\* leaves the default instance marked open.
C18_FreshManagerAfterClose ==
    [][\A c \in Callers :
          (callerPc[c] /= "init" /\ callerPc'[c] = "init") =>
              LET m == callerGot'[c].mgr
              IN /\ m \notin closedMgrs
                 /\ instance' = m /\ ~instanceClosed'
                 /\ (instance /= 0 /\ ~instanceClosed) => m = instance
                 /\ (instance = 0 \/ instanceClosed) => m \notin 1..built]_vars

\* C29 as stated: once the construction of the default manager has failed in
\* a first Init, which returns that error, no later call of Init or MustInit
\* dereferences the nil default instance.
C29_NoNilDereference ==
    (\E c \in Callers : callerGot[c].err = "construction failed") =>
        \A d \in Callers : callerPc[d] /= "panicked"

\* Init, Analyze, Close, Init, Analyze, Close: two managers, each analysed
\* on and closed, the second Init having returned nil
C18_Witness ==
    /\ built = 2
    /\ analyzed = {1, 2}
    /\ closedMgrs = {1, 2}
    /\ \E c \in Callers : callerGot[c] = [mgr |-> 2, err |-> "nil"]

(***************************************************************************)
(* Claims about the container check and the exit code of Analyze           *)
(* (SpecAnalyze).                                                          *)
(***************************************************************************)
InspectRefused == inspected.done /\ (inspected.err \/ ~inspected.running)

\* C19: Analyze creates an exec unit only after a ContainerInspect that
\* answered without error and with a running container; when the inspect
\* fails or the container is not running Analyze has returned the matching
\* error and no exec unit exists; and a call of the client that meets a
\* container torn down after the check makes Analyze return that call's error.
C19_CheckedBeforeExec ==
    /\ InspectRefused =>
          /\ execs = 0
          /\ execPc = "returned"
          /\ analyzeResult =
                ErrorResult(IF inspected.err THEN "failed to inspect container"
                            ELSE "container is not running")
    /\ execs > 0 => inspected.done /\ ~inspected.err /\ inspected.running
    /\ hitTeardown =>
          /\ container = "gone"
          /\ execPc = "returned"
          /\ analyzeResult.err \in {"failed to create exec", "failed to attach to exec",
                                    "failed to inspect exec"}
          /\ analyzeResult.tokens = <<>>

\* a stopped container was inspected and Analyze returned without an exec unit
C19_Witness ==
    /\ container = "stopped"
    /\ inspected.done /\ ~inspected.err /\ ~inspected.running
    /\ execPc = "returned"
    /\ execs = 0

\* C20: once Analyze has returned after the command ran to its end with a
\* non-zero exit code (and no call met a torn-down container), the error is
\* the 'command failed with exit code N' one, whatever the output held.
C20_NonZeroExitReported ==
    (execPc = "returned" /\ extractPc = "done" /\ exitCode /= 0 /\ ~hitTeardown)
        => analyzeResult.err = "command failed with exit code"

(***************************************************************************)
(* Claims about safe (SpecSafe).                                           *)
(***************************************************************************)
\* C22 as stated: for every text, the argument safe returns does not begin
\* with a hyphen.
C22_NoLeadingHyphen ==
    safePc = "done" => ~HasPrefix(safeArg, <<"-">>)

(***************************************************************************)
(* Claims about ToMorphemes (SpecMorph).                                   *)
(***************************************************************************)
\* the number of entries a token takes in the result: max(1, #components)
Width(t) == IF Len(t.Components) > 1 THEN Len(t.Components) ELSE 1

RECURSIVE WidthSum(_)
WidthSum(toks) == IF toks = <<>> THEN 0 ELSE Width(Head(toks)) + WidthSum(Tail(toks))

\* C23: the result of ToMorphemes has one entry per component of each token
\* that has components and one entry per other token; a token without
\* components stands at its place unchanged, and the components of a compound
\* stand in its place in their order, each as one entry that keeps its own
\* components.
C23_FlattensOneLevel ==
    morphemes.called =>
        /\ Len(morphemes.tokens) = WidthSum(receiver)
        /\ \A i \in 1..Len(receiver) :
              LET t == receiver[i]
                  off == WidthSum(SubSeq(receiver, 1, i - 1))
              IN IF Len(t.Components) = 0
                 THEN morphemes.tokens[off + 1] = t
                 ELSE \A j \in 1..Len(t.Components) :
                         morphemes.tokens[off + j] =
                             [t.Components[j] EXCEPT !.IsLexical = TRUE]

\* a call on a sequence that holds a plain token and a compound one of whose
\* components has components
C23_Witness ==
    /\ morphemes.called
    /\ \E i \in 1..Len(receiver) : Len(receiver[i].Components) = 0
    /\ \E i \in 1..Len(receiver) :
          /\ Len(receiver[i].Components) = 2
          /\ Len(receiver[i].Components[1].Components) = 2
    /\ Len(morphemes.tokens) > Len(receiver)

(***************************************************************************)
(* Claims about the deadline of Analyze (SpecReadFair).                    *)
(***************************************************************************)
\* C21 as stated: once the deadline of the request has expired while Analyze
\* reads the attached stream, Analyze returns; it does not stay in the read
\* on a stream that produces no more data.
C21_ReturnsAfterDeadline ==
    (deadline = "expired" /\ readPc = "reading") ~> (readPc = "returned")

====
